---- MODULE Spec2Model ----
(***************************************************************************)
(* Model of the signal synthesis and scoring engine of slap_agent.py:      *)
(* calculate_dom_diffs, analyze_network_logs, analyze_ap_signals,          *)
(* calculate_slap_score and get_strategy_text, run in the order            *)
(* inspect_site calls them.                                                *)
(*                                                                         *)
(* Numbers.  A growth ratio is a Python float n/d.  The model keeps the    *)
(* unrounded ratio as the pair [num, den] (den > 0) and compares it with a *)
(* threshold a/b by cross-multiplication; a value that went through        *)
(* round(x, 4) is kept as the integer number of ten-thousandths.  The      *)
(* weighted scores are kept in tenths: 0.5*ap is 5*ap tenths.  For the     *)
(* axis scores the code can produce (multiples of 10 up to 100) the        *)
(* double products are whole numbers, so tenths are exact.                 *)
(***************************************************************************)
EXTENDS Integers, Sequences, FiniteSets

VARIABLES
    url,              \* target URL: the set of login keywords its lower-cased text contains
    status_code,      \* HTTP status of the primary document
    html_stats,       \* extract_html_stats(raw_html): text_ratio (1/10000), has_root_div, title
    raw_html,         \* raw markup: the set of captcha keywords its lower-cased text contains
    t0_metrics,       \* DOM snapshot of the raw server HTML
    t1_metrics,       \* DOM snapshot after hydration
    t2_metrics,       \* DOM snapshot after the incremental scroll
    network_logs,     \* entries appended by handle_response: type, status, url, content_type, is_graphql
    network_summary,  \* analyze_network_logs(network_logs)
    dom_diffs,        \* result of calculate_dom_diffs
    ap_signals,       \* result of analyze_ap_signals
    labels,           \* first result of calculate_slap_score
    score,            \* second result of calculate_slap_score
    strategy,         \* result of get_strategy_text
    pc,               \* position of inspect_site
    listening,        \* page.on("response", handle_response) has been executed
    browser_closes,   \* number of calls of browser.close()
    arrived,          \* history of the responses the page received, with the phase of arrival
    outcome           \* how inspect_site ended: "running", "returned" or "raised"

vars == <<url, status_code, html_stats, raw_html, t0_metrics, t1_metrics, t2_metrics,
          network_logs, network_summary, dom_diffs, ap_signals, labels, score, strategy, pc,
          listening, browser_closes, arrived, outcome>>

evidence == <<url, status_code, html_stats, raw_html, t0_metrics, t1_metrics, t2_metrics,
              network_logs>>

\* the browser session around the analysis chain
session == <<listening, browser_closes, arrived, outcome>>

None == "None"

(***************************************************************************)
(* Arithmetic helpers                                                      *)
(***************************************************************************)

\* d.get(key, default)
Get(d, key, default) == IF key \in DOMAIN d THEN d[key] ELSE default

\* the float n/d, or the int 0 when the denominator snapshot is 0
Ratio(n, d) == IF d > 0 THEN [num |-> n, den |-> d] ELSE [num |-> 0, den |-> 1]

\* r > a/b and r < a/b on the unrounded ratio (b > 0)
RatioGT(r, a, b) == r.num * b > a * r.den
RatioLT(r, a, b) == r.num * b < a * r.den

\* round(r, 4) in ten-thousandths.  Python rounds the double nearest to
\* n/d; when n/d lies exactly half way between two 4-decimal values the
\* result depends on the binary representation, so both neighbours are
\* admitted.
Round4(r) ==
    LET scaled == r.num * 10000
        lo == scaled \div r.den
        rem == scaled % r.den
    IN  IF 2 * rem < r.den THEN {lo}
        ELSE IF 2 * rem > r.den THEN {lo + 1}
        ELSE {lo, lo + 1}

\* int(x) of a non-negative float kept in tenths
IntOfTenths(x) == x \div 10

(***************************************************************************)
(* calculate_dom_diffs                                                     *)
(***************************************************************************)

hydration_growth_raw(t0, t1) == Ratio(t1.node_count - t0.node_count, t0.node_count)

scroll_growth_raw(t1, t2) == Ratio(t2.node_count - t1.node_count, t1.node_count)

scroll_height_growth_raw(t1, t2) == Ratio(t2.scroll_height - t1.scroll_height, t1.scroll_height)

\* is_virtualized_suspected with the node-growth test at 0.5 instead of 0.05
is_virtualized_suspected_loose(t1, t2) ==
    /\ RatioGT(scroll_height_growth_raw(t1, t2), 5, 10)
    /\ RatioLT(scroll_growth_raw(t1, t2), 5, 10)

\* is_virtualized_suspected with the node-growth test taken inclusively (<= 0.05)
is_virtualized_suspected_inclusive(t1, t2) ==
    /\ RatioGT(scroll_height_growth_raw(t1, t2), 5, 10)
    /\ ~RatioGT(scroll_growth_raw(t1, t2), 5, 100)

is_virtualized_suspected(t1, t2) ==
    /\ RatioGT(scroll_height_growth_raw(t1, t2), 5, 10)
    /\ RatioLT(scroll_growth_raw(t1, t2), 5, 100)

\* interpretation with the hydration test moved to the front
interpretation_hydration_first(t0, t1, t2) ==
    IF RatioGT(hydration_growth_raw(t0, t1), 5, 10) THEN "Heavy CSR"
    ELSE IF is_virtualized_suspected(t1, t2) THEN "Virtualized rendering"
    ELSE IF RatioGT(scroll_growth_raw(t1, t2), 2, 10) THEN "Infinite scroll"
    ELSE "Minimal DOM changes detected"

interpretation(t0, t1, t2) ==
    IF is_virtualized_suspected(t1, t2) THEN "Virtualized rendering"
    ELSE IF RatioGT(scroll_growth_raw(t1, t2), 2, 10) THEN "Infinite scroll"
    ELSE IF RatioGT(hydration_growth_raw(t0, t1), 5, 10) THEN "Heavy CSR"
    ELSE "Minimal DOM changes detected"

\* the set of results calculate_dom_diffs can return (one, unless a ratio is a rounding tie)
calculate_dom_diffs(t0, t1, t2) ==
    { [hydration_growth |-> hg,
       scroll_growth |-> sg,
       scroll_height_growth |-> shg,
       is_virtualized_suspected |-> is_virtualized_suspected(t1, t2),
       interpretation |-> interpretation(t0, t1, t2)] :
        hg \in Round4(hydration_growth_raw(t0, t1)),
        sg \in Round4(scroll_growth_raw(t1, t2)),
        shg \in Round4(scroll_height_growth_raw(t1, t2)) }

\* the dom_diff_result dictionary inspect_site builds from dom_diffs
dom_diff_result(dd) ==
    [diffs |-> [hydration_growth |-> dd.hydration_growth,
                scroll_growth |-> dd.scroll_growth,
                scroll_height_growth |-> dd.scroll_height_growth],
     classification |-> [is_virtualized_suspected |-> dd.is_virtualized_suspected,
                         interpretation |-> dd.interpretation]]

(***************************************************************************)
(* analyze_ap_signals                                                      *)
(***************************************************************************)

login_keywords == <<"login", "signin", "sign-in", "sign_in", "authenticate", "authentication">>

captcha_keywords ==
    <<"recaptcha", "hcaptcha", "turnstile", "pardon our interruption",
      "verify you are human", "verify you're human", "complete the captcha",
      "security check", "cloudflare">>

\* any(kw in text for kw in keywords), text given by the keywords it contains
AnyKeywordIn(keywords, text) == \E i \in 1..Len(keywords) : keywords[i] \in text

\* [kw for kw in keywords if kw in text]
RECURSIVE KeywordsFound(_, _)
KeywordsFound(keywords, text) ==
    IF keywords = <<>> THEN <<>>
    ELSE (IF Head(keywords) \in text THEN <<Head(keywords)>> ELSE <<>>)
         \o KeywordsFound(Tail(keywords), text)

\* lst[:n]
Prefix(lst, n) == SubSeq(lst, 1, IF Len(lst) < n THEN Len(lst) ELSE n)

Evidence(source, key, value) == [source |-> source, key |-> key, value |-> value]

\* ApAuthSignal that looks at the 401 count only
ApAuthSignal_401_only(ns) ==
    LET auth_401 == Get(Get(ns, "blocking_signals", <<>>), "401", 0)
    IN  IF auth_401 > 0
        THEN << [label |-> "AP-AUTH", state |-> "confirmed", confidence |-> 100,
                 evidence |-> <<Evidence("network", "status_401", auth_401)>>] >>
        ELSE <<>>

\* 1. AP-AUTH (401/403), confirmed
ApAuthSignal(ns) ==
    LET auth_401 == Get(Get(ns, "blocking_signals", <<>>), "401", 0)
        auth_403 == Get(Get(ns, "blocking_signals", <<>>), "403", 0)
    IN  IF auth_401 > 0 \/ auth_403 > 0
        THEN << [label |-> "AP-AUTH", state |-> "confirmed", confidence |-> 100,
                 evidence |->
                    (IF auth_401 > 0 THEN <<Evidence("network", "status_401", auth_401)>> ELSE <<>>)
                    \o (IF auth_403 > 0 THEN <<Evidence("network", "status_403", auth_403)>> ELSE <<>>)] >>
        ELSE <<>>

\* 2. AP-RATE (429), confirmed
ApRateSignal(ns) ==
    LET rate_429 == Get(Get(ns, "blocking_signals", <<>>), "429", 0)
    IN  IF rate_429 > 0
        THEN << [label |-> "AP-RATE", state |-> "confirmed", confidence |-> 100,
                 evidence |-> <<Evidence("network", "status_429", rate_429)>>] >>
        ELSE <<>>

\* ApLoginSignal whose confidence drops to 0.8 whenever the title matched
ApLoginSignal_title_lowers(u, hs) ==
    LET url_match == AnyKeywordIn(login_keywords, u)
        title_match == AnyKeywordIn(login_keywords, Get(hs, "title", {}))
    IN  IF url_match \/ title_match
        THEN << [label |-> "AP-LOGIN", state |-> "confirmed",
                 confidence |-> IF title_match THEN 80 ELSE 100,
                 evidence |->
                    (IF url_match THEN <<Evidence("url", "url", u)>> ELSE <<>>)
                    \o (IF title_match THEN <<Evidence("html", "title", Get(hs, "title", {}))>> ELSE <<>>)] >>
        ELSE <<>>

\* 3. AP-LOGIN (URL/title keywords), confirmed
ApLoginSignal(u, hs) ==
    LET url_match == AnyKeywordIn(login_keywords, u)
        title_match == AnyKeywordIn(login_keywords, Get(hs, "title", {}))
    IN  IF url_match \/ title_match
        THEN << [label |-> "AP-LOGIN", state |-> "confirmed",
                 confidence |-> IF url_match THEN 100 ELSE 80,
                 evidence |->
                    (IF url_match THEN <<Evidence("url", "url", u)>> ELSE <<>>)
                    \o (IF title_match THEN <<Evidence("html", "title", Get(hs, "title", {}))>> ELSE <<>>)] >>
        ELSE <<>>

\* ApBotScoreSignal without the hydration guard
ApBotScoreSignal_unguarded(sc, hs, ns, ddr) ==
    LET text_ratio == Get(hs, "text_ratio", 0)
        xhr_fetch_count == Get(ns, "xhr_fetch_count", 0)
        hydration_growth == Get(Get(ddr, "diffs", <<>>), "hydration_growth", 0)
    IN  IF sc = 200 /\ text_ratio < 200 /\ xhr_fetch_count = 0
        THEN << [label |-> "AP-BOT-SCORE", state |-> "suspected", confidence |-> 80,
                 evidence |-> << Evidence("http", "status_code", sc),
                                 Evidence("html", "text_ratio", text_ratio),
                                 Evidence("network", "xhr_fetch_count", xhr_fetch_count),
                                 Evidence("dom", "hydration_growth", hydration_growth) >>] >>
        ELSE <<>>

\* 4. AP-BOT-SCORE (empty shell + no XHR + no hydration), suspected
ApBotScoreSignal(sc, hs, ns, ddr) ==
    LET text_ratio == Get(hs, "text_ratio", 0)
        xhr_fetch_count == Get(ns, "xhr_fetch_count", 0)
        hydration_growth == Get(Get(ddr, "diffs", <<>>), "hydration_growth", 0)
    IN  IF sc = 200 /\ text_ratio < 200 /\ xhr_fetch_count = 0 /\ hydration_growth < 1000
        THEN << [label |-> "AP-BOT-SCORE", state |-> "suspected", confidence |-> 80,
                 evidence |-> << Evidence("http", "status_code", sc),
                                 Evidence("html", "text_ratio", text_ratio),
                                 Evidence("network", "xhr_fetch_count", xhr_fetch_count),
                                 Evidence("dom", "hydration_growth", hydration_growth) >>] >>
        ELSE <<>>

\* 5. AP-CAPTCHA (HTML text keywords), confirmed
ApCaptchaSignal(html) ==
    LET found_captcha == KeywordsFound(captcha_keywords, html)
    IN  IF found_captcha # <<>>
        THEN << [label |-> "AP-CAPTCHA", state |-> "confirmed", confidence |-> 95,
                 evidence |-> <<Evidence("html", "captcha_keywords", Prefix(found_captcha, 3))>>] >>
        ELSE <<>>

\* analyze_ap_signals as an if/elif chain: only the first rule that holds is reported
analyze_ap_signals_exclusive(u, sc, hs, ns, html, ddr) ==
    IF ApAuthSignal(ns) # <<>> THEN ApAuthSignal(ns)
    ELSE IF ApRateSignal(ns) # <<>> THEN ApRateSignal(ns)
    ELSE IF ApLoginSignal(u, hs) # <<>> THEN ApLoginSignal(u, hs)
    ELSE IF ApBotScoreSignal(sc, hs, ns, ddr) # <<>> THEN ApBotScoreSignal(sc, hs, ns, ddr)
    ELSE ApCaptchaSignal(html)

analyze_ap_signals(u, sc, hs, ns, html, ddr) ==
    ApAuthSignal(ns) \o ApRateSignal(ns) \o ApLoginSignal(u, hs)
        \o ApBotScoreSignal(sc, hs, ns, ddr) \o ApCaptchaSignal(html)

(***************************************************************************)
(* analyze_network_logs                                                    *)
(* A URL is an identifier; a content type is the set of the words "json"   *)
(* and "html" its lower-cased text contains.                               *)
(***************************************************************************)

\* str(log['status'])
StatusStr(status) ==
    CASE status = 401 -> "401" [] status = 403 -> "403" [] status = 429 -> "429"
      [] status = 200 -> "200" [] OTHER -> "other"

\* xhr_fetch_count that stops counting at the first entry of another type
xhr_fetch_count_leading(logs) ==
    Cardinality({i \in 1..Len(logs) : \A j \in 1..i : logs[j].type \in {"xhr", "fetch"}})

\* sum(1 for log in network_logs if log['type'] in ['xhr', 'fetch'])
xhr_fetch_count(logs) == Cardinality({i \in 1..Len(logs) : logs[i].type \in {"xhr", "fetch"}})

\* blocking_signals[status] += 1 for the statuses that are keys of the dictionary
blocking_signals(logs) ==
    [key \in {"401", "403", "429"} |-> Cardinality({i \in 1..Len(logs) : StatusStr(logs[i].status) = key})]

\* DataTypeOf with the content-type tested before the GraphQL flag
DataTypeOf_content_first(log) ==
    IF "json" \in Get(log, "content_type", {}) THEN "json"
    ELSE IF "html" \in Get(log, "content_type", {}) THEN "html"
    ELSE IF Get(log, "is_graphql", FALSE) THEN "graphql"
    ELSE None

\* DataTypeOf that takes an entry without a content-type for JSON
DataTypeOf_missing_is_json(log) ==
    IF Get(log, "is_graphql", FALSE) THEN "graphql"
    ELSE IF "content_type" \notin DOMAIN log \/ "json" \in log.content_type THEN "json"
    ELSE IF "html" \in log.content_type THEN "html"
    ELSE None

\* the branch of the data-type if/elif chain an entry takes
DataTypeOf(log) ==
    IF Get(log, "is_graphql", FALSE) THEN "graphql"
    ELSE IF "json" \in Get(log, "content_type", {}) THEN "json"
    ELSE IF "html" \in Get(log, "content_type", {}) THEN "html"
    ELSE None

data_types(logs) ==
    [key \in {"json", "html", "graphql"} |-> Cardinality({i \in 1..Len(logs) : DataTypeOf(logs[i]) = key})]

\* the loop that fills suspected_apis and seen_urls
RECURSIVE SuspectedLoop(_, _, _)
SuspectedLoop(logs, suspected, seen_urls) ==
    IF logs = <<>> THEN suspected
    ELSE LET log == Head(logs)
         IN  IF log.type \in {"xhr", "fetch"} /\ log.url \notin seen_urls
                  /\ (Get(log, "is_graphql", FALSE) \/ "json" \in Get(log, "content_type", {}))
             THEN SuspectedLoop(Tail(logs), Append(suspected, log.url), seen_urls \cup {log.url})
             ELSE SuspectedLoop(Tail(logs), suspected, seen_urls)

\* suspected_apis without the limit to 10
suspected_apis_untruncated(logs) == SuspectedLoop(logs, <<>>, {})

\* suspected_apis where every xhr/fetch entry marks its URL as seen
suspected_apis_seen_all(logs) ==
    LET idx == {i \in 1..Len(logs) :
                   /\ logs[i].type \in {"xhr", "fetch"}
                   /\ Get(logs[i], "is_graphql", FALSE) \/ "json" \in Get(logs[i], "content_type", {})
                   /\ \A j \in 1..(i - 1) :
                         ~(logs[j].type \in {"xhr", "fetch"} /\ logs[j].url = logs[i].url)}
    IN  Prefix([k \in 1..Cardinality(idx) |->
                   logs[CHOOSE i \in idx : Cardinality({j \in idx : j < i}) = k - 1].url], 10)

suspected_apis(logs) == Prefix(SuspectedLoop(logs, <<>>, {}), 10)

analyze_network_logs(logs) ==
    [total_captured |-> Len(logs),
     xhr_fetch_count |-> xhr_fetch_count(logs),
     blocking_signals |-> blocking_signals(logs),
     data_types |-> data_types(logs),
     suspected_apis |-> suspected_apis(logs)]

(***************************************************************************)
(* calculate_slap_score                                                    *)
(***************************************************************************)

\* json_count / total_captured if total_captured > 0 else 0
json_ratio(ns) == Ratio(Get(Get(ns, "data_types", <<>>), "json", 0), Get(ns, "total_captured", 0))

\* s_primary with the second threshold taken inclusively (>= 0.2)
s_primary_inclusive(hs, ddr) ==
    LET hydration_growth == Get(Get(ddr, "diffs", <<>>), "hydration_growth", 0)
    IN  IF hydration_growth > 5000 THEN "S-CSR"
        ELSE IF hydration_growth >= 2000 \/ Get(hs, "has_root_div", FALSE) THEN "S-CSR"
        ELSE IF Get(hs, "text_ratio", 0) > 500 /\ hydration_growth < 1000 THEN "S-SSR"
        ELSE "S-STATIC"

\* s_primary with the text-ratio threshold taken inclusively (>= 0.05)
s_primary_text_inclusive(hs, ddr) ==
    LET hydration_growth == Get(Get(ddr, "diffs", <<>>), "hydration_growth", 0)
    IN  IF hydration_growth > 5000 THEN "S-CSR"
        ELSE IF hydration_growth > 2000 \/ Get(hs, "has_root_div", FALSE) THEN "S-CSR"
        ELSE IF Get(hs, "text_ratio", 0) >= 500 /\ hydration_growth < 1000 THEN "S-SSR"
        ELSE "S-STATIC"

\* S axis, step 1: primary architecture
s_primary(hs, ddr) ==
    LET hydration_growth == Get(Get(ddr, "diffs", <<>>), "hydration_growth", 0)
    IN  IF hydration_growth > 5000 THEN "S-CSR"
        ELSE IF hydration_growth > 2000 \/ Get(hs, "has_root_div", FALSE) THEN "S-CSR"
        ELSE IF Get(hs, "text_ratio", 0) > 500 /\ hydration_growth < 1000 THEN "S-SSR"
        ELSE "S-STATIC"

s_arch_score(hs, ddr) ==
    LET hydration_growth == Get(Get(ddr, "diffs", <<>>), "hydration_growth", 0)
    IN  IF hydration_growth > 5000 THEN 60
        ELSE IF hydration_growth > 2000 \/ Get(hs, "has_root_div", FALSE) THEN 60
        ELSE IF Get(hs, "text_ratio", 0) > 500 /\ hydration_growth < 1000 THEN 20
        ELSE 0

\* S axis, step 2: modifiers
s_modifiers(ddr) ==
    IF Get(Get(ddr, "classification", <<>>), "is_virtualized_suspected", FALSE) THEN <<"S-VIRTUALIZED">> ELSE <<>>

s_modifier_score(ddr) ==
    IF Get(Get(ddr, "classification", <<>>), "is_virtualized_suspected", FALSE) THEN 90 ELSE 0

Max(a, b) == IF a >= b THEN a ELSE b

\* s_score adding the modifier to the primary instead of taking the larger
s_score_sum(hs, ddr) == s_arch_score(hs, ddr) + s_modifier_score(ddr)

\* S axis, step 3: final score
s_score(hs, ddr) == Max(s_arch_score(hs, ddr), s_modifier_score(ddr))

\* l_label with the xhr/fetch threshold taken inclusively (>= 5)
l_label_inclusive(ns, ddr) ==
    IF Get(Get(ns, "data_types", <<>>), "graphql", 0) > 0 THEN "L-GRAPHQL"
    ELSE IF Get(Get(ddr, "diffs", <<>>), "scroll_growth", 0) > 1000 THEN "L-INTERACTIVE"
    ELSE IF Get(ns, "xhr_fetch_count", 0) >= 5 /\ RatioGT(json_ratio(ns), 5, 10) THEN "L-API"
    ELSE "L-STATIC"

\* L axis
l_label(ns, ddr) ==
    IF Get(Get(ns, "data_types", <<>>), "graphql", 0) > 0 THEN "L-GRAPHQL"
    ELSE IF Get(Get(ddr, "diffs", <<>>), "scroll_growth", 0) > 1000 THEN "L-INTERACTIVE"
    ELSE IF Get(ns, "xhr_fetch_count", 0) > 5 /\ RatioGT(json_ratio(ns), 5, 10) THEN "L-API"
    ELSE "L-STATIC"

l_score(ns, ddr) ==
    IF Get(Get(ns, "data_types", <<>>), "graphql", 0) > 0 THEN 80
    ELSE IF Get(Get(ddr, "diffs", <<>>), "scroll_growth", 0) > 1000 THEN 50
    ELSE IF Get(ns, "xhr_fetch_count", 0) > 5 /\ RatioGT(json_ratio(ns), 5, 10) THEN 30
    ELSE 0

\* ap_score_map with AP-AUTH rated like AP-RATE
ap_score_map_auth_as_rate(label) ==
    CASE label = "AP-CAPTCHA" -> 100
      [] label = "AP-AUTH" -> 80
      [] label = "AP-RATE" -> 80
      [] label = "AP-BOT-SCORE" -> 60
      [] label = "AP-LOGIN" -> 40
      [] OTHER -> 0

\* ap_score_map with an odd score for AP-LOGIN
ap_score_map_login_45(label) ==
    CASE label = "AP-CAPTCHA" -> 100
      [] label = "AP-AUTH" -> 100
      [] label = "AP-RATE" -> 80
      [] label = "AP-BOT-SCORE" -> 60
      [] label = "AP-LOGIN" -> 45
      [] OTHER -> 0

\* AP axis: ap_score_map.get(label, 0)
ap_score_map(label) ==
    CASE label = "AP-CAPTCHA" -> 100
      [] label = "AP-AUTH" -> 100
      [] label = "AP-RATE" -> 80
      [] label = "AP-BOT-SCORE" -> 60
      [] label = "AP-LOGIN" -> 40
      [] OTHER -> 0

\* the loop over ap_signals: the labels in signal order
SignalLabels(signals) == [i \in 1..Len(signals) |-> signals[i].label]

\* the loop over ap_signals: ap_score = max(ap_score, signal_score)
RECURSIVE ApScoreLoop(_, _)
ApScoreLoop(signals, acc) ==
    IF signals = <<>> THEN acc
    ELSE ApScoreLoop(Tail(signals), Max(acc, ap_score_map(Head(signals).label)))

ap_labels(signals) ==
    IF SignalLabels(signals) = <<>> THEN <<"AP-OPEN">> ELSE SignalLabels(signals)

\* ap_score keeping the score of the last signal instead of the highest
ap_score_last(signals) ==
    IF signals = <<>> THEN 0 ELSE ap_score_map(signals[Len(signals)].label)

ap_score(signals) ==
    IF SignalLabels(signals) = <<>> THEN 0 ELSE ApScoreLoop(signals, 0)

\* ap_weighted without the factor 0.5, l_weighted with the weight of the S axis
ap_weighted_unweighted(signals) == ap_score(signals) * 10
l_weighted_as_structure(ns, ddr) == l_score(ns, ddr) * 3

\* weighted scoring, in tenths
ap_weighted(signals) == ap_score(signals) * 5
s_weighted(hs, ddr) == s_score(hs, ddr) * 3
l_weighted(ns, ddr) == l_score(ns, ddr) * 2

total_score(hs, ns, ddr, signals) ==
    IntOfTenths(ap_weighted(signals) + s_weighted(hs, ddr) + l_weighted(ns, ddr))

\* tier with the HARD band starting at 50
tier_hard_from_50(total) ==
    IF total >= 81 THEN "HELL"
    ELSE IF total >= 50 THEN "HARD"
    ELSE IF total >= 21 THEN "MEDIUM"
    ELSE "EASY"

\* tier with the HELL band starting at 70
tier_hell_from_70(total) ==
    IF total >= 70 THEN "HELL"
    ELSE IF total >= 51 THEN "HARD"
    ELSE IF total >= 21 THEN "MEDIUM"
    ELSE "EASY"

\* tier that keeps state between invocations: once a score exists it answers EASY
tier_stateful(total) ==
    IF pc \in {"scored", "done"} THEN "EASY"
    ELSE IF total >= 81 THEN "HELL"
    ELSE IF total >= 51 THEN "HARD"
    ELSE IF total >= 21 THEN "MEDIUM"
    ELSE "EASY"

tier(total) ==
    IF total >= 81 THEN "HELL"
    ELSE IF total >= 51 THEN "HARD"
    ELSE IF total >= 21 THEN "MEDIUM"
    ELSE "EASY"

\* which S label contributed most
s_driver_label(hs, ddr) ==
    IF s_score(hs, ddr) > 0
    THEN IF s_modifier_score(ddr) > s_arch_score(hs, ddr)
         THEN (IF s_modifiers(ddr) # <<>> THEN s_modifiers(ddr)[1] ELSE None)
         ELSE s_primary(hs, ddr)
    ELSE None

\* the AP entry of scored_items
ap_driver_label(signals) ==
    IF ap_labels(signals) # <<>> /\ ap_labels(signals)[1] # "AP-OPEN"
    THEN ap_labels(signals)[1] ELSE None

scored_items(hs, ns, ddr, signals) ==
    << <<ap_score(signals), ap_driver_label(signals)>>,
       <<s_score(hs, ddr), s_driver_label(hs, ddr)>>,
       <<l_score(ns, ddr), IF l_score(ns, ddr) > 0 THEN l_label(ns, ddr) ELSE None>> >>

\* list.sort(key=lambda x: x[0], reverse=True): stable, equal keys keep their order
RECURSIVE InsertByScore(_, _)
InsertByScore(item, sorted) ==
    IF sorted = <<>> THEN <<item>>
    ELSE IF item[1] > Head(sorted)[1] THEN <<item>> \o sorted
    ELSE <<Head(sorted)>> \o InsertByScore(item, Tail(sorted))

RECURSIVE SortByScoreDesc(_)
SortByScoreDesc(items) ==
    IF items = <<>> THEN <<>>
    ELSE InsertByScore(items[Len(items)], SortByScoreDesc(SubSeq(items, 1, Len(items) - 1)))

\* for score, label in scored_items: if label and score > 0: drivers.append(label)
RECURSIVE KeepDrivers(_)
KeepDrivers(items) ==
    IF items = <<>> THEN <<>>
    ELSE (IF Head(items)[2] # None /\ Head(items)[1] > 0 THEN <<Head(items)[2]>> ELSE <<>>)
         \o KeepDrivers(Tail(items))

\* drivers with equal scores kept in the order Loading, Structure, AP
drivers_ties_reversed(hs, ns, ddr, signals) ==
    LET items == scored_items(hs, ns, ddr, signals)
    IN  KeepDrivers(SortByScoreDesc(<<items[3], items[2], items[1]>>))

drivers(hs, ns, ddr, signals) == KeepDrivers(SortByScoreDesc(scored_items(hs, ns, ddr, signals)))

slap_labels(hs, ns, ddr, signals) ==
    [structure |-> [primary |-> s_primary(hs, ddr), modifiers |-> s_modifiers(ddr)],
     loading |-> l_label(ns, ddr),
     access_protection |-> ap_labels(signals)]

slap_score(hs, ns, ddr, signals) ==
    [total_score |-> total_score(hs, ns, ddr, signals),
     tier |-> tier(total_score(hs, ns, ddr, signals)),
     breakdown |-> [AP |-> IntOfTenths(ap_weighted(signals)),
                    S |-> IntOfTenths(s_weighted(hs, ddr)),
                    L |-> IntOfTenths(l_weighted(ns, ddr))],
     drivers |-> drivers(hs, ns, ddr, signals)]

(***************************************************************************)
(* get_strategy_text                                                       *)
(***************************************************************************)

\* x in lst
InList(x, lst) == \E i \in 1..Len(lst) : lst[i] = x

\* get_strategy_text with the virtualization rule tested before the CAPTCHA/AUTH rule
get_strategy_text_warn_first(lb, drv) ==
    LET apl == lb.access_protection
        mods == lb.structure.modifiers
    IN  IF InList("S-VIRTUALIZED", mods)
        THEN [level |-> "warn", message |-> "WARN: DOM is virtualized"]
        ELSE IF InList("AP-CAPTCHA", apl) \/ InList("AP-AUTH", apl)
        THEN [level |-> "abort",
              message |-> IF InList("AP-CAPTCHA", apl) THEN "ABORT: CAPTCHA Solver"
                          ELSE "ABORT: valid Credentials"]
        ELSE IF InList("AP-RATE", apl) \/ InList("AP-BOT-SCORE", apl)
        THEN [level |-> "caution", message |-> "CAUTION: Throttling or soft-blocking"]
        ELSE IF lb.structure.primary = "S-CSR" \/ InList("AP-LOGIN", apl)
        THEN [level |-> "info", message |-> "INFO"]
        ELSE [level |-> "success", message |-> "SUCCESS: Standard HTTP requests"]

get_strategy_text(lb, drv) ==
    LET apl == lb.access_protection
        prim == lb.structure.primary
        mods == lb.structure.modifiers
    IN  IF InList("AP-CAPTCHA", apl) \/ InList("AP-AUTH", apl)
        THEN [level |-> "abort",
              message |-> IF InList("AP-CAPTCHA", apl) THEN "ABORT: CAPTCHA Solver"
                          ELSE "ABORT: valid Credentials"]
        ELSE IF InList("S-VIRTUALIZED", mods)
        THEN [level |-> "warn", message |-> "WARN: DOM is virtualized"]
        ELSE IF InList("AP-RATE", apl) \/ InList("AP-BOT-SCORE", apl)
        THEN [level |-> "caution",
              message |-> IF InList("AP-RATE", apl) THEN "CAUTION: Throttling (429)"
                          ELSE "CAUTION: Soft-blocking"]
        ELSE IF prim = "S-CSR"
        THEN [level |-> "info", message |-> "INFO: Client-Side Rendering detected"]
        ELSE IF InList("AP-LOGIN", apl)
        THEN [level |-> "info", message |-> "INFO: Login page detected"]
        ELSE [level |-> "success", message |-> "SUCCESS: Standard HTTP requests"]

(***************************************************************************)
(* inspect_site: the analysis chain                                        *)
(***************************************************************************)

\* inside the try block of inspect_site: listener attached, browser open
InSession ==
    /\ listening = TRUE
    /\ browser_closes = 0
    /\ arrived = <<>>
    /\ outcome = "running"

NoDomDiffs ==
    [hydration_growth |-> 0, scroll_growth |-> 0, scroll_height_growth |-> 0,
     is_virtualized_suspected |-> FALSE, interpretation |-> None]

NoLabels ==
    [structure |-> [primary |-> None, modifiers |-> <<>>],
     loading |-> None, access_protection |-> <<>>]

NoScore ==
    [total_score |-> 0, tier |-> None, breakdown |-> [AP |-> 0, S |-> 0, L |-> 0],
     drivers |-> <<>>]

NoStrategy == [level |-> None, message |-> None]

Snapshot(nodes, height) == [node_count |-> nodes, scroll_height |-> height]

NoSummary ==
    [total_captured |-> 0, xhr_fetch_count |-> 0,
     blocking_signals |-> [key \in {"401", "403", "429"} |-> 0],
     data_types |-> [key \in {"json", "html", "graphql"} |-> 0],
     suspected_apis |-> <<>>]

LogEntry(type, status, u, content_type, is_graphql) ==
    [type |-> type, status |-> status, url |-> u, content_type |-> content_type,
     is_graphql |-> is_graphql]

\* the counts of a captured log: every counted entry is one of the total, an
\* entry has one status and falls in at most one data-type bucket
NetworkSummaries(Totals, Xhrs, Jsons, Gqls, Blocks) ==
    { ns \in [total_captured : Totals,
              xhr_fetch_count : Xhrs,
              blocking_signals : [{"401", "403", "429"} -> Blocks],
              data_types : [json : Jsons, html : {0}, graphql : Gqls]] :
        /\ ns.xhr_fetch_count <= ns.total_captured
        /\ ns.blocking_signals["401"] + ns.blocking_signals["403"]
             + ns.blocking_signals["429"] <= ns.total_captured
        /\ ns.data_types.json + ns.data_types.graphql <= ns.total_captured }

\* a log with the counts c: entry i of c.total_captured, each with its own URL
LogWithCounts(c) ==
    LET b401 == c.blocking_signals["401"]
        b403 == c.blocking_signals["403"]
        b429 == c.blocking_signals["429"]
    IN  [i \in 1..c.total_captured |->
            LogEntry(IF i <= c.xhr_fetch_count THEN "xhr" ELSE "document",
                     IF i <= b401 THEN 401
                     ELSE IF i <= b401 + b403 THEN 403
                     ELSE IF i <= b401 + b403 + b429 THEN 429
                     ELSE 200,
                     i,
                     IF c.data_types.graphql < i
                          /\ i <= c.data_types.graphql + c.data_types.json
                     THEN {"json"} ELSE {},
                     i <= c.data_types.graphql)]

\* the state of inspect_site once the evidence is captured (after the t2
\* snapshot), before the pure analysis chain
Captured(Urls, Statuses, TextRatios, Roots, Titles, Htmls, N0, N1, N2, H1, H2, Counts) ==
    /\ url \in Urls
    /\ status_code \in Statuses
    /\ html_stats \in [text_ratio : TextRatios, has_root_div : Roots, title : Titles]
    /\ raw_html \in Htmls
    /\ t0_metrics \in {Snapshot(n, 0) : n \in N0}
    /\ t1_metrics \in {Snapshot(n, h) : n \in N1, h \in H1}
    /\ t2_metrics \in {Snapshot(n, h) : n \in N2, h \in H2}
    /\ network_logs \in {LogWithCounts(c) : c \in Counts}
    /\ network_summary = NoSummary
    /\ dom_diffs = NoDomDiffs
    /\ ap_signals = <<>>
    /\ labels = NoLabels
    /\ score = NoScore
    /\ strategy = NoStrategy
    /\ InSession
    /\ pc = "captured"

\* dom_diffs = calculate_dom_diffs(t0_metrics, t1_metrics, t2_metrics)
CalculateDomDiffs ==
    /\ pc = "captured"
    /\ dom_diffs' \in calculate_dom_diffs(t0_metrics, t1_metrics, t2_metrics)
    /\ pc' = "diffed"
    /\ UNCHANGED <<evidence, session, network_summary, ap_signals, labels, score, strategy>>

\* network_summary = analyze_network_logs(network_logs)
AnalyzeNetworkLogs ==
    /\ pc = "diffed"
    /\ network_summary' = analyze_network_logs(network_logs)
    /\ pc' = "summarised"
    /\ UNCHANGED <<evidence, session, dom_diffs, ap_signals, labels, score, strategy>>

\* ap_signals = analyze_ap_signals(url, status_code, html_stats, network_summary,
\*                                 raw_html, dom_diff_result)
AnalyzeApSignals ==
    /\ pc = "summarised"
    /\ ap_signals' = analyze_ap_signals(url, status_code, html_stats, network_summary,
                                        raw_html, dom_diff_result(dom_diffs))
    /\ pc' = "signals"
    /\ UNCHANGED <<evidence, session, network_summary, dom_diffs, labels, score, strategy>>

\* labels, score = calculate_slap_score(html_stats, network_summary, dom_diff_result, ap_signals)
CalculateSlapScore ==
    /\ pc = "signals"
    /\ labels' = slap_labels(html_stats, network_summary, dom_diff_result(dom_diffs), ap_signals)
    /\ score' = slap_score(html_stats, network_summary, dom_diff_result(dom_diffs), ap_signals)
    /\ pc' = "scored"
    /\ UNCHANGED <<evidence, session, network_summary, dom_diffs, ap_signals, strategy>>

\* network_summary = analyze_network_logs(network_logs), a second time, then
\* strategy = get_strategy_text(labels, score['drivers'])
GetStrategyText ==
    /\ pc = "scored"
    /\ network_summary' = analyze_network_logs(network_logs)
    /\ strategy' = get_strategy_text(labels, score.drivers)
    /\ pc' = "done"
    /\ UNCHANGED <<evidence, session, dom_diffs, ap_signals, labels, score>>

Next ==
    \/ CalculateDomDiffs
    \/ AnalyzeNetworkLogs
    \/ AnalyzeApSignals
    \/ CalculateSlapScore
    \/ GetStrategyText

(***************************************************************************)
(* Spec: every kind of evidence varies, over a small set of snapshots      *)
(***************************************************************************)

\* largest count of one blocking status code in a run
MaxBlock == 1

Init ==
    Captured({{}, {"login"}},
             {200, 403},
             {100, 300, 600},
             BOOLEAN,
             {{}, {"signin"}},
             {{}, {"cloudflare"}},
             {100}, {100, 115, 300}, {100, 115, 300},
             {1000}, {1000, 2000},
             NetworkSummaries({0, 7}, {0, 6}, {0, 4}, {0, 1}, 0..MaxBlock))

Spec == Init /\ [][Next]_vars

(***************************************************************************)
(* SpecChain: the evidence of Spec over fewer values, for properties that  *)
(* run the whole chain again in every state                                *)
(***************************************************************************)

InitChain ==
    Captured({{}, {"login"}},
             {200, 403},
             {100, 600},
             BOOLEAN,
             {{}},
             {{}, {"cloudflare"}},
             {100}, {100, 300}, {100, 115, 300},
             {1000}, {1000, 2000},
             NetworkSummaries({0, 7}, {0, 6}, {0, 4}, {0, 1}, {0, 1}))

SpecChain == InitChain /\ [][Next]_vars

(***************************************************************************)
(* SpecDom: the snapshots vary (the scenarios of the specification, the    *)
(* exact thresholds, and ratios a rounding step away from a threshold),    *)
(* the access-protection evidence is held at none                          *)
(***************************************************************************)

InitDom ==
    Captured({{}},
             {200},
             {100, 600},
             BOOLEAN,
             {{}},
             {{}},
             {0, 50, 100, 2001, 10001, 25000},
             {0, 50, 100, 110, 120, 150, 300, 500, 2201, 15002, 25000, 30001},
             {0, 50, 100, 105, 110, 120, 150, 300, 500, 510, 2201, 15002, 25000, 27501, 30001},
             {0, 1000}, {0, 1500, 2000},
             NetworkSummaries({0, 1}, {0, 1}, {0}, {0}, {0}))

SpecDom == InitDom /\ [][Next]_vars

(***************************************************************************)
(* SpecLoad: the network counts and the scroll growth vary around the      *)
(* thresholds of the loading axis                                          *)
(***************************************************************************)

InitLoad ==
    Captured({{}},
             {200},
             {600},
             {FALSE},
             {{}},
             {{}},
             {100}, {100}, {100, 110, 115},
             {0}, {0},
             NetworkSummaries({0, 6, 8}, {0, 5, 6}, {0, 3, 4, 5}, {0, 1}, {0}))

SpecLoad == InitLoad /\ [][Next]_vars

(***************************************************************************)
(* SpecNet: analyze_network_logs on logs of any order: every short log     *)
(* over LogEntries, and long logs with more distinct API URLs than the     *)
(* summary keeps                                                           *)
(***************************************************************************)

MaxFree == 3
MaxBulk == 12

LogEntries ==
    {LogEntry(type, 200, u, c[1], c[2]) :
        type \in {"xhr", "fetch", "document"}, u \in 1..2,
        c \in {<<{"json"}, FALSE>>, <<{"html"}, FALSE>>, <<{"json"}, TRUE>>}}
    \cup {LogEntry("document", status, 1, {"json", "html"}, FALSE) : status \in {401, 403, 429}}
    \cup {LogEntry("fetch", 429, 2, {}, TRUE), LogEntry("xhr", 401, 1, {}, FALSE)}

\* k API calls, each to its own URL
Bulk(k) ==
    [i \in 1..k |-> LogEntry(IF i % 2 = 1 THEN "xhr" ELSE "fetch", 200, i, {"json"}, i % 3 = 0)]

ShortLogs(n) == UNION {[1..m -> LogEntries] : m \in 0..n}

InitNet ==
    /\ url = {}
    /\ status_code = 200
    /\ html_stats = [text_ratio |-> 0, has_root_div |-> FALSE, title |-> {}]
    /\ raw_html = {}
    /\ t0_metrics = Snapshot(0, 0)
    /\ t1_metrics = Snapshot(0, 0)
    /\ t2_metrics = Snapshot(0, 0)
    /\ network_logs \in ShortLogs(MaxFree)
                        \cup {f \o Bulk(k) \o g : f \in ShortLogs(1), g \in ShortLogs(1),
                                                  k \in 9..MaxBulk}
    /\ network_summary = NoSummary
    /\ dom_diffs \in calculate_dom_diffs(t0_metrics, t1_metrics, t2_metrics)
    /\ ap_signals = <<>>
    /\ labels = NoLabels
    /\ score = NoScore
    /\ strategy = NoStrategy
    /\ InSession
    /\ pc = "diffed"

SpecNet == InitNet /\ [][AnalyzeNetworkLogs]_vars

(***************************************************************************)
(* SpecBot: the status, the text ratio, the xhr/fetch count and the        *)
(* hydration growth vary around the conditions of AP-BOT-SCORE             *)
(***************************************************************************)

InitBot ==
    Captured({{}},
             {200, 403},
             {100, 199, 200, 300},
             {FALSE},
             {{}},
             {{}},
             {100, 2001}, {100, 109, 110, 115, 2201}, {100},
             {0}, {0},
             NetworkSummaries({0, 1}, {0, 1}, {0}, {0}, {0}))

SpecBot == InitBot /\ [][Next]_vars

(***************************************************************************)
(* SpecAp: the evidence of each of the five AP rules varies on its own     *)
(***************************************************************************)

InitAp ==
    Captured({{}, {"login"}, {"sign-in", "authenticate"}},
             {200},
             {100, 600},
             {FALSE},
             {{}, {"signin"}},
             {{}, {"cloudflare"}, {"turnstile", "security check"},
              {"recaptcha", "hcaptcha", "turnstile", "cloudflare"}},
             {100}, {100}, {100},
             {0}, {0},
             NetworkSummaries({0, 3}, {0, 1}, {0}, {0}, {0, 1}))

SpecAp == InitAp /\ [][Next]_vars

(***************************************************************************)
(* SpecScenario: three equal snapshots of 50 nodes and height 0, an empty  *)
(* or one-entry log, and every kind of page around them                    *)
(***************************************************************************)

InitScenario ==
    Captured({{}, {"login"}},
             {200, 403},
             {100, 200, 300, 500, 600},
             BOOLEAN,
             {{}, {"signin"}},
             {{}, {"cloudflare"}},
             {50}, {50}, {50},
             {0}, {0},
             NetworkSummaries({0, 1}, {0, 1}, {0}, {0}, {0}))

SpecScenario == InitScenario /\ [][Next]_vars

(***************************************************************************)
(* SpecPartial: the analysis functions called with dictionaries that lack  *)
(* optional fields.  Here dom_diffs holds the DomDiffResult dictionary the *)
(* caller passes, and the log entries keep type, status and url.           *)
(***************************************************************************)

\* the dictionary d with only the keys in keys
Restrict(d, keys) == [k \in keys |-> d[k]]

PartialLogEntries ==
    {Restrict(e, {"type", "status", "url"} \cup opt) :
        e \in {LogEntry("xhr", 200, 1, {"json"}, FALSE),
               LogEntry("fetch", 200, 2, {}, TRUE),
               LogEntry("document", 401, 1, {"html"}, FALSE)},
        opt \in SUBSET {"content_type", "is_graphql"}}

PartialLogs == UNION {[1..m -> PartialLogEntries] : m \in 0..2}

PartialHtmlStats ==
    {Restrict(hs, keys) :
        hs \in [text_ratio : {100, 600}, has_root_div : {TRUE}, title : {{"signin"}}],
        keys \in SUBSET {"text_ratio", "has_root_div", "title"}}

PartialSummaries ==
    LET full == {[total_captured |-> 7, xhr_fetch_count |-> x,
                  blocking_signals |-> [key \in {"401", "403", "429"} |->
                                            IF key = "403" THEN 0 ELSE 1],
                  data_types |-> [key \in {"json", "html", "graphql"} |->
                                      CASE key = "json" -> 4 [] key = "graphql" -> g
                                        [] OTHER -> 0]] :
                    x \in {0, 6}, g \in {0, 1}}
    IN  {Restrict(ns, keys) :
            ns \in full,
            keys \in SUBSET {"total_captured", "xhr_fetch_count", "blocking_signals",
                             "data_types"}}
        \cup {[ns EXCEPT !.data_types = Restrict(ns.data_types, {"json"}),
                         !.blocking_signals = Restrict(ns.blocking_signals, {"429"})] :
                 ns \in full}

PartialDomDiffResults ==
    LET full == {dom_diff_result([hydration_growth |-> hg, scroll_growth |-> sg,
                                  scroll_height_growth |-> 0,
                                  is_virtualized_suspected |-> v,
                                  interpretation |-> None]) :
                    hg \in {0, 3000}, sg \in {0, 1500}, v \in BOOLEAN}
    IN  {Restrict(ddr, keys) : ddr \in full, keys \in SUBSET {"diffs", "classification"}}
        \cup {[ddr EXCEPT !.diffs = Restrict(ddr.diffs, keys),
                          !.classification = Restrict(ddr.classification, {})] :
                 ddr \in full, keys \in SUBSET {"hydration_growth", "scroll_growth"}}

InitPartial ==
    /\ url = {}
    /\ status_code = 200
    /\ html_stats \in PartialHtmlStats
    /\ raw_html = {}
    /\ t0_metrics = Snapshot(0, 0)
    /\ t1_metrics = Snapshot(0, 0)
    /\ t2_metrics = Snapshot(0, 0)
    /\ \/ /\ pc = "diffed"
          /\ network_logs \in PartialLogs
          /\ network_summary = NoSummary
          /\ dom_diffs \in {ddr \in PartialDomDiffResults : DOMAIN ddr = {}}
       \/ /\ pc = "summarised"
          /\ network_logs = <<>>
          /\ network_summary \in PartialSummaries
          /\ dom_diffs \in PartialDomDiffResults
    /\ ap_signals = <<>>
    /\ labels = NoLabels
    /\ score = NoScore
    /\ strategy = NoStrategy
    /\ InSession

\* analyze_ap_signals called on the dictionaries as they are
CallAnalyzeApSignals ==
    /\ pc = "summarised"
    /\ ap_signals' = analyze_ap_signals(url, status_code, html_stats, network_summary,
                                        raw_html, dom_diffs)
    /\ pc' = "signals"
    /\ UNCHANGED <<evidence, session, network_summary, dom_diffs, labels, score, strategy>>

\* calculate_slap_score called on the dictionaries as they are
CallCalculateSlapScore ==
    /\ pc = "signals"
    /\ labels' = slap_labels(html_stats, network_summary, dom_diffs, ap_signals)
    /\ score' = slap_score(html_stats, network_summary, dom_diffs, ap_signals)
    /\ pc' = "scored"
    /\ UNCHANGED <<evidence, session, network_summary, dom_diffs, ap_signals, strategy>>

NextPartial ==
    \/ AnalyzeNetworkLogs
    \/ CallAnalyzeApSignals
    \/ CallCalculateSlapScore

SpecPartial == InitPartial /\ [][NextPartial]_vars

(***************************************************************************)
(* SpecInspect: inspect_site from the launch of the browser to the exit of *)
(* main.  A blocking Playwright call is a phase in which responses can     *)
(* arrive; a response is its resource type, its status and whether its log *)
(* entry can be built.                                                     *)
(***************************************************************************)

MaxResponses == 2

KeptTypes == {"xhr", "fetch", "websocket", "eventsource", "document"}

\* the phases from navigation through the scroll
CapturePhases == {"navigating", "lazy_wait", "hydrating", "scrolling"}

\* the positions inside the try block at which a step can raise
TryPhases ==
    CapturePhases \cup {"captured", "diffed", "summarised", "signals", "scored"}

\* handle_response: the log after the response r
handle_response(logs, r) ==
    IF r.type \notin KeptTypes THEN logs
    ELSE IF r.built
         THEN Append(logs, LogEntry(r.type, r.status, r.url,
                                    IF r.type = "xhr" THEN {"json"} ELSE {"html"}, FALSE))
         ELSE logs

InitInspect ==
    /\ url = {}
    /\ status_code = 0
    /\ html_stats = [text_ratio |-> 0, has_root_div |-> FALSE, title |-> {}]
    /\ raw_html = {}
    /\ t0_metrics = Snapshot(0, 0)
    /\ t1_metrics = Snapshot(0, 0)
    /\ t2_metrics = Snapshot(0, 0)
    /\ network_logs = <<>>
    /\ network_summary = NoSummary
    /\ dom_diffs = NoDomDiffs
    /\ ap_signals = <<>>
    /\ labels = NoLabels
    /\ score = NoScore
    /\ strategy = NoStrategy
    /\ pc = "launched"
    /\ listening = FALSE
    /\ browser_closes = 0
    /\ arrived = <<>>
    /\ outcome = "running"

analysis == <<network_summary, dom_diffs, ap_signals, labels, score, strategy>>

\* context = browser.new_context(...); page = context.new_page()
NewPage ==
    /\ pc = "launched"
    /\ pc' = "page"
    /\ UNCHANGED <<evidence, analysis, session>>

\* new_context or new_page raises: the call is outside the try block
SetupRaises ==
    /\ pc = "launched"
    /\ outcome' = "raised"
    /\ pc' = "exited"
    /\ UNCHANGED <<evidence, analysis, listening, browser_closes, arrived>>

\* AttachListener that leaves the handler unregistered
AttachListener_not_registered ==
    /\ pc = "page"
    /\ pc' = "ready"
    /\ UNCHANGED <<evidence, analysis, session>>

\* page.on("response", handle_response)
AttachListener ==
    /\ pc = "page"
    /\ listening' = TRUE
    /\ pc' = "ready"
    /\ UNCHANGED <<evidence, analysis, browser_closes, arrived, outcome>>

\* response = page.goto(url, ...): the call starts
Goto ==
    /\ pc = "ready"
    /\ pc' = "navigating"
    /\ UNCHANGED <<evidence, analysis, session>>

\* a response reaches the page while a Playwright call is running
Response(type, status, built) ==
    /\ pc \in CapturePhases
    /\ Len(arrived) < MaxResponses
    /\ LET r == [type |-> type, status |-> status, built |-> built,
                 url |-> Len(arrived) + 1, phase |-> pc]
       IN  /\ arrived' = Append(arrived, r)
           /\ network_logs' = IF listening THEN handle_response(network_logs, r)
                              ELSE network_logs
    /\ UNCHANGED <<url, status_code, html_stats, raw_html, t0_metrics, t1_metrics,
                   t2_metrics, analysis, pc, listening, browser_closes, outcome>>

\* page.goto returns; if response is None: raise
GotoReturns ==
    /\ pc = "navigating"
    /\ \E response_is_none \in BOOLEAN :
          pc' = IF response_is_none THEN "failed" ELSE "lazy_wait"
    /\ UNCHANGED <<evidence, analysis, session>>

\* wait_for_timeout(3000); raw_html, status_code, html_stats, t0_metrics
CaptureRawHtml ==
    /\ pc = "lazy_wait"
    /\ raw_html' = {}
    /\ status_code' = 200
    /\ html_stats' \in [text_ratio : {100, 300}, has_root_div : {FALSE}, title : {{}}]
    /\ t0_metrics' = Snapshot(100, 0)
    /\ pc' = "hydrating"
    /\ UNCHANGED <<url, t1_metrics, t2_metrics, network_logs, analysis, session>>

\* wait_for_timeout(2000); t1_metrics = extract_dom_metrics_from_page(page)
SnapshotT1 ==
    /\ pc = "hydrating"
    /\ t1_metrics' = Snapshot(100, 1000)
    /\ pc' = "scrolling"
    /\ UNCHANGED <<url, status_code, html_stats, raw_html, t0_metrics, t2_metrics,
                   network_logs, analysis, session>>

\* perform_incremental_scroll(page); t2_metrics = extract_dom_metrics_from_page(page)
SnapshotT2 ==
    /\ pc = "scrolling"
    /\ t2_metrics' \in {Snapshot(100, 1000), Snapshot(100, 2000)}
    /\ pc' = "captured"
    /\ UNCHANGED <<url, status_code, html_stats, raw_html, t0_metrics, t1_metrics,
                   network_logs, analysis, session>>

\* a step inside the try block raises: except prints and re-raises
StepRaises ==
    /\ pc \in TryPhases
    /\ pc' = "failed"
    /\ UNCHANGED <<evidence, analysis, session>>

\* return {...} or the re-raised exception, then finally: browser.close()
Finally ==
    /\ pc \in {"done", "failed"}
    /\ browser_closes' = browser_closes + 1
    /\ \E close_raises \in BOOLEAN :
          outcome' = IF pc = "done" /\ ~close_raises THEN "returned" ELSE "raised"
    /\ pc' = "exited"
    /\ UNCHANGED <<evidence, analysis, listening, arrived>>

\* main: inspect_site(url) returned, or except Exception: sys.exit(1)
MainExits ==
    /\ pc = "exited"
    /\ pc' = IF outcome = "returned" THEN "exit_0" ELSE "exit_1"
    /\ UNCHANGED <<evidence, analysis, session>>

NextInspect ==
    \/ NewPage
    \/ SetupRaises
    \/ AttachListener
    \/ Goto
    \/ \E type \in {"xhr", "document", "image"}, status \in {200, 429}, built \in BOOLEAN :
          Response(type, status, built)
    \/ GotoReturns
    \/ CaptureRawHtml
    \/ SnapshotT1
    \/ SnapshotT2
    \/ CalculateDomDiffs
    \/ AnalyzeNetworkLogs
    \/ AnalyzeApSignals
    \/ CalculateSlapScore
    \/ GetStrategyText
    \/ StepRaises
    \/ Finally
    \/ MainExits

SpecInspect == InitInspect /\ [][NextInspect]_vars

(***************************************************************************)
(* SpecStrategy: get_strategy_text applied to every label combination      *)
(***************************************************************************)

\* the order in which analyze_ap_signals appends its signals
ApEvaluationOrder == <<"AP-AUTH", "AP-RATE", "AP-LOGIN", "AP-BOT-SCORE", "AP-CAPTCHA">>

AllLabels ==
    { [structure |-> [primary |-> p, modifiers |-> m], loading |-> l,
       access_protection |-> IF a = {} THEN <<"AP-OPEN">>
                             ELSE KeywordsFound(ApEvaluationOrder, a)] :
        p \in {"S-CSR", "S-SSR", "S-STATIC"},
        m \in {<<>>, <<"S-VIRTUALIZED">>},
        l \in {"L-GRAPHQL", "L-INTERACTIVE", "L-API", "L-STATIC"},
        a \in SUBSET {"AP-AUTH", "AP-RATE", "AP-LOGIN", "AP-BOT-SCORE", "AP-CAPTCHA"} }

InitStrategy ==
    /\ url = {}
    /\ status_code = 200
    /\ html_stats = [text_ratio |-> 0, has_root_div |-> FALSE, title |-> {}]
    /\ raw_html = {}
    /\ t0_metrics = Snapshot(0, 0)
    /\ t1_metrics = Snapshot(0, 0)
    /\ t2_metrics = Snapshot(0, 0)
    /\ network_logs = <<>>
    /\ network_summary = analyze_network_logs(network_logs)
    /\ dom_diffs = NoDomDiffs
    /\ ap_signals = <<>>
    /\ labels \in AllLabels
    /\ score = NoScore
    /\ strategy = NoStrategy
    /\ InSession
    /\ pc = "scored"

SpecStrategy == InitStrategy /\ [][GetStrategyText]_vars

(***************************************************************************)
(* Properties                                                              *)
(***************************************************************************)

Scored == pc \in {"scored", "done"}

HasLabel(lst, x) == \E i \in 1..Len(lst) : lst[i] = x

\* the level the priority order of the specification gives to a label set
ExpectedLevel(lb) ==
    LET ap == {lb.access_protection[i] : i \in 1..Len(lb.access_protection)}
        mods == {lb.structure.modifiers[i] : i \in 1..Len(lb.structure.modifiers)}
    IN  CASE ap \cap {"AP-CAPTCHA", "AP-AUTH"} # {} -> "abort"
          [] ap \cap {"AP-CAPTCHA", "AP-AUTH"} = {} /\ "S-VIRTUALIZED" \in mods -> "warn"
          [] ap \cap {"AP-CAPTCHA", "AP-AUTH"} = {} /\ "S-VIRTUALIZED" \notin mods
             /\ ap \cap {"AP-RATE", "AP-BOT-SCORE"} # {} -> "caution"
          [] ap \cap {"AP-CAPTCHA", "AP-AUTH", "AP-RATE", "AP-BOT-SCORE"} = {}
             /\ "S-VIRTUALIZED" \notin mods /\ lb.structure.primary = "S-CSR" -> "info"
          [] ap \cap {"AP-CAPTCHA", "AP-AUTH", "AP-RATE", "AP-BOT-SCORE"} = {}
             /\ "S-VIRTUALIZED" \notin mods /\ lb.structure.primary # "S-CSR"
             /\ "AP-LOGIN" \in ap -> "info"
          [] OTHER -> "success"

\* C1: get_strategy_text returns exactly one strategy for every label
\* combination, the one of the first matching rule in the order abort (CAPTCHA
\* or AUTH), warn (S-VIRTUALIZED), caution (RATE or BOT-SCORE), info (S-CSR),
\* info (AP-LOGIN), success; CAPTCHA together with S-VIRTUALIZED gives abort.
C1_StrategyPriority ==
    pc = "done" =>
        /\ strategy.level \in {"abort", "warn", "caution", "info", "success"}
        /\ strategy.level = ExpectedLevel(labels)
        /\ (HasLabel(labels.access_protection, "AP-CAPTCHA")
              /\ HasLabel(labels.structure.modifiers, "S-VIRTUALIZED")
            => strategy.level = "abort" /\ strategy.message = "ABORT: CAPTCHA Solver")

C1_Witness ==
    /\ pc = "done"
    /\ HasLabel(labels.access_protection, "AP-CAPTCHA")
    /\ ~HasLabel(labels.access_protection, "AP-AUTH")
    /\ HasLabel(labels.structure.modifiers, "S-VIRTUALIZED")
    /\ strategy.level = "abort"

TierRank(t) ==
    CASE t = "EASY" -> 0 [] t = "MEDIUM" -> 1 [] t = "HARD" -> 2 [] t = "HELL" -> 3

\* C2 (as stated): a run whose network summary has a 401 count >= 1 gets
\* total_score >= 50 and a tier of at least HARD.
C2_AuthAtLeastHard ==
    Scored /\ network_summary.blocking_signals["401"] >= 1 =>
        /\ score.total_score >= 50
        /\ TierRank(score.tier) >= TierRank("HARD")

\* C2 (amended): a run whose network summary has a 401 count >= 1 gets
\* total_score >= 50 and a tier of at least MEDIUM; the tier is at least HARD
\* exactly when the structure or loading axis adds to the 50 points of AP-AUTH,
\* and with S-STATIC, no modifier and L-STATIC the total is 50 and the tier MEDIUM.
C2_AuthAtLeastMedium ==
    Scored /\ network_summary.blocking_signals["401"] >= 1 =>
        /\ HasLabel(labels.access_protection, "AP-AUTH")
        /\ score.total_score >= 50
        /\ TierRank(score.tier) >= TierRank("MEDIUM")
        /\ (TierRank(score.tier) >= TierRank("HARD") <=> score.total_score >= 51)
        /\ (labels.structure.primary = "S-STATIC" /\ labels.structure.modifiers = <<>>
              /\ labels.loading = "L-STATIC"
            => score.total_score = 50 /\ score.tier = "MEDIUM")

C2_Witness ==
    /\ Scored
    /\ network_summary.blocking_signals["401"] = 1
    /\ network_summary.blocking_signals["403"] = 0
    /\ labels.structure.primary = "S-STATIC"
    /\ labels.structure.modifiers = <<>>
    /\ labels.loading = "L-STATIC"
    /\ score.total_score = 50
    /\ score.tier = "MEDIUM"

\* the severity map of the specification
Severity(label) ==
    CASE label \in {"AP-CAPTCHA", "AP-AUTH"} -> 100
      [] label = "AP-RATE" -> 80
      [] label = "AP-BOT-SCORE" -> 60
      [] label = "AP-LOGIN" -> 40
      [] OTHER -> 0

\* the largest severity among a list of labels, 0 for none
MaxSeverity(lst) ==
    IF \A i \in 1..Len(lst) : Severity(lst[i]) = 0 THEN 0
    ELSE CHOOSE v \in {Severity(lst[i]) : i \in 1..Len(lst)} :
            \A i \in 1..Len(lst) : Severity(lst[i]) <= v

IsApLabel(label) == Severity(label) > 0

\* C3: the access-protection label in the driver list is a highest-scoring
\* detected signal: its severity equals the AP axis score.
C3_DriverIsTopSignal ==
    Scored =>
        \A i \in 1..Len(score.drivers) :
            IsApLabel(score.drivers[i]) =>
                Severity(score.drivers[i]) = MaxSeverity(labels.access_protection)

\* C4: every threshold comparison on a growth ratio falls on the side the
\* unrounded ratio falls on: the value rounded to 4 decimals that
\* analyze_ap_signals and calculate_slap_score read is > 0.5, > 0.2, < 0.1
\* (hydration) and > 0.1 (scroll) exactly when the unrounded ratio is.
C4_ThresholdsOnUnroundedRatio ==
    pc # "captured" =>
        LET hg == hydration_growth_raw(t0_metrics, t1_metrics)
            sg == scroll_growth_raw(t1_metrics, t2_metrics)
            ddr == dom_diff_result(dom_diffs)
        IN  /\ (ddr.diffs.hydration_growth > 5000 <=> RatioGT(hg, 5, 10))
            /\ (ddr.diffs.hydration_growth > 2000 <=> RatioGT(hg, 2, 10))
            /\ (ddr.diffs.hydration_growth < 1000 <=> RatioLT(hg, 1, 10))
            /\ (ddr.diffs.scroll_growth > 1000 <=> RatioGT(sg, 1, 10))

\* the unweighted axis scores the specification gives to the labels
PrimaryScore(p) == CASE p = "S-CSR" -> 60 [] p = "S-SSR" -> 20 [] OTHER -> 0

StructureAxis(lb) ==
    LET m == IF HasLabel(lb.structure.modifiers, "S-VIRTUALIZED") THEN 90 ELSE 0
        a == PrimaryScore(lb.structure.primary)
    IN  IF a >= m THEN a ELSE m

LoadingAxis(lb) ==
    CASE lb.loading = "L-GRAPHQL" -> 80
      [] lb.loading = "L-INTERACTIVE" -> 50
      [] lb.loading = "L-API" -> 30
      [] OTHER -> 0

AccessAxis(lb) == MaxSeverity(lb.access_protection)

\* C5: total_score is an integer in 0..100 for every combination of signals
\* and structure and loading inputs.
C5_TotalInRange == Scored => score.total_score \in 0..100

C5_Witness ==
    /\ Scored
    /\ score.total_score = 93
    /\ AccessAxis(labels) = 100 /\ StructureAxis(labels) = 90 /\ LoadingAxis(labels) = 80

\* C6: total_score = floor((5*AP + 3*S + 2*L) / 10) for the unweighted axis
\* scores AP, S, L of the three classifications.
C6_WeightedTotal ==
    Scored =>
        score.total_score =
            (5 * AccessAxis(labels) + 3 * StructureAxis(labels) + 2 * LoadingAxis(labels)) \div 10

C6_Witness ==
    /\ Scored
    /\ AccessAxis(labels) = 40 /\ StructureAxis(labels) = 60 /\ LoadingAxis(labels) = 50
    /\ score.total_score = 48

\* C7: the tier is a function of total_score alone: HELL from 81, HARD for
\* 51..80, MEDIUM for 21..50, EASY for 0..20.
C7_TierBands ==
    Scored =>
        score.tier = (CASE score.total_score >= 81 -> "HELL"
                        [] score.total_score \in 51..80 -> "HARD"
                        [] score.total_score \in 21..50 -> "MEDIUM"
                        [] OTHER -> "EASY")

C7_Witness ==
    /\ Scored
    /\ score.total_score = 83
    /\ score.tier = "HELL"

\* C8: the AP axis score is the largest severity among the detected signals;
\* with no signal the access_protection labels are exactly [AP-OPEN] with
\* score 0, otherwise they are the signal labels in signal order, without AP-OPEN.
C8_ApAxis ==
    Scored =>
        /\ 2 * score.breakdown.AP = MaxSeverity(SignalLabels(ap_signals))
        /\ (ap_signals = <<>> =>
                labels.access_protection = <<"AP-OPEN">> /\ score.breakdown.AP = 0)
        /\ (ap_signals # <<>> =>
                /\ labels.access_protection = SignalLabels(ap_signals)
                /\ ~HasLabel(labels.access_protection, "AP-OPEN"))

C8_Witness ==
    /\ Scored
    /\ labels.access_protection = <<"AP-RATE", "AP-LOGIN", "AP-CAPTCHA">>
    /\ score.breakdown.AP = 50

\* C9: the structure primary is one of S-CSR, S-SSR, S-STATIC by first match
\* on the hydration_growth of the DomDiffResult: > 0.5 -> S-CSR (60); else
\* > 0.2 or SPA root -> S-CSR (60); else text_ratio > 0.05 and growth < 0.1
\* -> S-SSR (20); else S-STATIC (0).  t0 = 100, t1 = 300 nodes gives S-CSR.
C9_StructurePrimary ==
    Scored =>
        LET hg == dom_diffs.hydration_growth
            p == labels.structure.primary
        IN  /\ p \in {"S-CSR", "S-SSR", "S-STATIC"}
            /\ (hg > 5000 => p = "S-CSR")
            /\ (hg <= 5000 /\ (hg > 2000 \/ html_stats.has_root_div) => p = "S-CSR")
            /\ (hg <= 2000 /\ ~html_stats.has_root_div
                  /\ html_stats.text_ratio > 500 /\ hg < 1000 => p = "S-SSR")
            /\ (hg <= 2000 /\ ~html_stats.has_root_div
                  /\ ~(html_stats.text_ratio > 500 /\ hg < 1000) => p = "S-STATIC")
            /\ (labels.structure.modifiers = <<>> =>
                    10 * score.breakdown.S = 3 * PrimaryScore(p))
            /\ (t0_metrics.node_count = 100 /\ t1_metrics.node_count = 300 => p = "S-CSR")

C9_Witness ==
    /\ Scored
    /\ t0_metrics.node_count = 100 /\ t1_metrics.node_count = 300
    /\ ~html_stats.has_root_div
    /\ dom_diffs.hydration_growth = 20000
    /\ labels.structure.primary = "S-CSR"
    /\ score.breakdown.S = 18

\* C10: S-VIRTUALIZED is a modifier iff virtualization is suspected; the
\* structure score is the larger of the primary and the modifier score (90
\* whenever virtualized, never the sum), the structure driver is then
\* S-VIRTUALIZED, and without a CAPTCHA or AUTH signal the strategy is warn.
C10_VirtualizedModifier ==
    /\ Scored =>
        /\ (HasLabel(labels.structure.modifiers, "S-VIRTUALIZED")
              <=> dom_diffs.is_virtualized_suspected)
        /\ 10 * score.breakdown.S = 3 * StructureAxis(labels)
        /\ (dom_diffs.is_virtualized_suspected =>
              /\ score.breakdown.S = 27
              /\ HasLabel(score.drivers, "S-VIRTUALIZED")
              /\ ~HasLabel(score.drivers, labels.structure.primary))
    /\ pc = "done" /\ dom_diffs.is_virtualized_suspected
         /\ ~HasLabel(labels.access_protection, "AP-CAPTCHA")
         /\ ~HasLabel(labels.access_protection, "AP-AUTH")
       => strategy.level = "warn"

C10_Witness ==
    /\ pc = "done"
    /\ dom_diffs.is_virtualized_suspected
    /\ labels.structure.primary = "S-CSR"
    /\ labels.structure.modifiers = <<"S-VIRTUALIZED">>
    /\ HasLabel(labels.access_protection, "AP-RATE")
    /\ score.breakdown.S = 27
    /\ strategy.level = "warn"

\* C11: the loading label is one of four, by first match: GraphQL count > 0
\* -> L-GRAPHQL (80); else scroll_growth > 0.1 -> L-INTERACTIVE (50); else
\* xhr/fetch count > 5 and json_count/total_captured > 0.5 -> L-API (30); else
\* L-STATIC (0); with total_captured = 0 the JSON ratio counts as 0.
C11_LoadingLabel ==
    Scored =>
        LET gql == network_summary.data_types["graphql"]
            json == network_summary.data_types["json"]
            total == network_summary.total_captured
            xhr == network_summary.xhr_fetch_count
            sg == dom_diffs.scroll_growth
            api == xhr > 5 /\ total > 0 /\ 2 * json > total
            l == labels.loading
        IN  /\ l \in {"L-GRAPHQL", "L-INTERACTIVE", "L-API", "L-STATIC"}
            /\ (gql > 0 => l = "L-GRAPHQL")
            /\ (gql = 0 /\ sg > 1000 => l = "L-INTERACTIVE")
            /\ (gql = 0 /\ sg <= 1000 /\ api => l = "L-API")
            /\ (gql = 0 /\ sg <= 1000 /\ ~api => l = "L-STATIC")
            /\ 10 * score.breakdown.L = 2 * LoadingAxis(labels)

C11_Witness ==
    /\ Scored
    /\ network_summary.data_types["graphql"] = 0
    /\ dom_diffs.scroll_growth = 1000
    /\ network_summary.xhr_fetch_count = 6
    /\ network_summary.data_types["json"] = 4
    /\ network_summary.total_captured = 6
    /\ labels.loading = "L-API"
    /\ score.breakdown.L = 6

\* the candidate label and the unweighted score of axis a (1 AP, 2 Structure,
\* 3 Loading) of a classification
CandidateLabel(lb, a) ==
    CASE a = 1 -> lb.access_protection[1]
      [] a = 2 -> IF HasLabel(lb.structure.modifiers, "S-VIRTUALIZED")
                     /\ 90 > PrimaryScore(lb.structure.primary)
                  THEN "S-VIRTUALIZED" ELSE lb.structure.primary
      [] a = 3 -> lb.loading

AxisScore(lb, a) ==
    CASE a = 1 -> AccessAxis(lb) [] a = 2 -> StructureAxis(lb) [] a = 3 -> LoadingAxis(lb)

\* the place of axis a among the drivers: after every axis with a higher
\* score and every earlier axis with the same score
DriverRank(lb, a) ==
    1 + Cardinality({b \in 1..3 :
            /\ AxisScore(lb, b) > 0
            /\ \/ AxisScore(lb, b) > AxisScore(lb, a)
               \/ AxisScore(lb, b) = AxisScore(lb, a) /\ b < a})

\* C12: the driver list holds exactly the candidate labels of the axes whose
\* unweighted score is > 0, ordered by that score descending; axes with equal
\* scores keep the insertion order AP, Structure, Loading.
C12_DriversOrder ==
    Scored =>
        /\ Len(score.drivers) = Cardinality({a \in 1..3 : AxisScore(labels, a) > 0})
        /\ \A a \in 1..3 :
              AxisScore(labels, a) > 0 =>
                  score.drivers[DriverRank(labels, a)] = CandidateLabel(labels, a)

C12_Witness ==
    /\ Scored
    /\ AccessAxis(labels) = 80 /\ LoadingAxis(labels) = 80 /\ StructureAxis(labels) = 60
    /\ score.drivers = <<"AP-RATE", "L-GRAPHQL", "S-CSR">>

\* a tie of the AP axis with the Structure axis at 60
C12_WitnessTieAtSixty ==
    /\ Scored
    /\ AccessAxis(labels) = 60 /\ StructureAxis(labels) = 60
    /\ score.drivers[1] = "AP-BOT-SCORE" /\ score.drivers[2] = "S-CSR"

Summarised == pc \notin {"captured", "diffed"}

NoDuplicates(lst) == \A i, j \in 1..Len(lst) : lst[i] = lst[j] => i = j

\* an entry whose URL analyze_network_logs takes for an API endpoint
Qualifies(log) ==
    log.type \in {"xhr", "fetch"} /\ (log.is_graphql \/ "json" \in log.content_type)

\* the positions of the first qualifying occurrence of each URL
FirstQualifying(logs) ==
    {i \in 1..Len(logs) :
        /\ Qualifies(logs[i])
        /\ \A j \in 1..(i - 1) : ~(Qualifies(logs[j]) /\ logs[j].url = logs[i].url)}

\* C13: for every network log, the empty one included, the summary has
\* xhr_fetch_count <= total_captured, each of the 401/403/429 counts <=
\* total_captured, and a suspected_apis list of at most 10 URLs without
\* duplicates.
C13_SummaryInvariants ==
    Summarised =>
        /\ network_summary.total_captured = Len(network_logs)
        /\ network_summary.xhr_fetch_count <= network_summary.total_captured
        /\ \A key \in {"401", "403", "429"} :
              network_summary.blocking_signals[key] <= network_summary.total_captured
        /\ Len(network_summary.suspected_apis) <= 10
        /\ NoDuplicates(network_summary.suspected_apis)

C13_Witness ==
    /\ Summarised
    /\ Cardinality(FirstQualifying(network_logs)) > 10
    /\ Len(network_summary.suspected_apis) = 10
    /\ \E i, j \in 1..Len(network_logs) :
          i # j /\ Qualifies(network_logs[i]) /\ Qualifies(network_logs[j])
          /\ network_logs[i].url = network_logs[j].url

C13_WitnessEmptyLog ==
    /\ Summarised
    /\ network_logs = <<>>
    /\ network_summary = NoSummary

\* C14: each log entry is counted in at most one data-type bucket, by
\* priority: GraphQL-flagged -> graphql; else content-type contains "json" ->
\* json; else content-type contains "html" -> html; else none.  Hence
\* graphql + json + html <= total_captured, and a GraphQL-flagged entry with a
\* JSON content-type is counted only as graphql.
C14_BucketPriority ==
    Summarised =>
        LET n == Len(network_logs)
            gql == {i \in 1..n : network_logs[i].is_graphql}
            json == {i \in (1..n) \ gql : "json" \in network_logs[i].content_type}
            html == {i \in (1..n) \ (gql \cup json) : "html" \in network_logs[i].content_type}
        IN  /\ network_summary.data_types["graphql"] = Cardinality(gql)
            /\ network_summary.data_types["json"] = Cardinality(json)
            /\ network_summary.data_types["html"] = Cardinality(html)
            /\ network_summary.data_types["graphql"] + network_summary.data_types["json"]
                 + network_summary.data_types["html"] <= network_summary.total_captured

C14_Witness ==
    /\ Summarised
    /\ \E i, j \in 1..Len(network_logs) :
          /\ network_logs[i].is_graphql /\ "json" \in network_logs[i].content_type
          /\ ~network_logs[j].is_graphql
          /\ network_logs[j].content_type = {"json", "html"}
    /\ network_summary.data_types["graphql"] = 1
    /\ network_summary.data_types["json"] = 1
    /\ network_summary.data_types["html"] = 0
    /\ network_summary.total_captured = 2

\* C15: suspected_apis is the sequence of the distinct URLs of the entries of
\* type xhr or fetch that are GraphQL-flagged or have a JSON content-type, in
\* the order of each URL's first qualifying occurrence, cut to the first 10; a
\* URL that first occurs in a non-qualifying entry and later in a qualifying
\* one is still included.
C15_SuspectedApis ==
    Summarised =>
        LET first == FirstQualifying(network_logs)
            rank(i) == 1 + Cardinality({j \in first : j < i})
            apis == network_summary.suspected_apis
        IN  /\ Len(apis) = (IF Cardinality(first) < 10 THEN Cardinality(first) ELSE 10)
            /\ \A i \in first : rank(i) <= 10 => apis[rank(i)] = network_logs[i].url

C15_Witness ==
    /\ Summarised
    /\ Len(network_logs) = 3
    /\ network_logs[1].type = "xhr" /\ ~Qualifies(network_logs[1])
    /\ network_logs[1].url = 1
    /\ Qualifies(network_logs[2]) /\ network_logs[2].url = 2
    /\ Qualifies(network_logs[3]) /\ network_logs[3].url = 1
    /\ network_summary.suspected_apis = <<2, 1>>

\* the log with its entries i and i + 1 exchanged
SwapAdjacent(logs, i) ==
    [k \in 1..Len(logs) |->
        IF k = i THEN logs[i + 1] ELSE IF k = i + 1 THEN logs[i] ELSE logs[k]]

Reverse(logs) == [k \in 1..Len(logs) |-> logs[Len(logs) + 1 - k]]

Counts(ns) == <<ns.total_captured, ns.xhr_fetch_count, ns.blocking_signals, ns.data_types>>

\* C16: reordering the entries of a network log changes none of the counts of
\* the summary (total_captured, xhr_fetch_count, the 401/403/429 counts, the
\* json/html/graphql counts); the order shows only in suspected_apis.
C16_CountsIgnoreOrder ==
    Summarised =>
        /\ Counts(analyze_network_logs(Reverse(network_logs))) = Counts(network_summary)
        /\ \A i \in 1..(Len(network_logs) - 1) :
              Counts(analyze_network_logs(SwapAdjacent(network_logs, i)))
                  = Counts(network_summary)

C16_Witness ==
    /\ Summarised
    /\ \E i \in 1..(Len(network_logs) - 1) :
          /\ network_logs[i] # network_logs[i + 1]
          /\ network_logs[i].type # network_logs[i + 1].type
          /\ analyze_network_logs(SwapAdjacent(network_logs, i)).suspected_apis
                 # network_summary.suspected_apis
          /\ Counts(analyze_network_logs(SwapAdjacent(network_logs, i)))
                 = Counts(network_summary)
    /\ network_summary.xhr_fetch_count \in 1..(network_summary.total_captured - 1)

DomDiffed == pc # "captured"

\* C17: in calculate_dom_diffs hydration_growth is 0 when t0 has 0 nodes,
\* scroll_growth is 0 when t1 has 0 nodes and scroll_height_growth is 0 when
\* t1 has height 0 (every non-negative snapshot triple has a result), and
\* is_virtualized_suspected is true iff scroll_height_growth > 0.5 and
\* scroll_growth < 0.05, both strict.
C17_ZeroDenominatorsAndVirtualization ==
    DomDiffed =>
        LET n1 == t1_metrics.node_count
            n2 == t2_metrics.node_count
            h1 == t1_metrics.scroll_height
            h2 == t2_metrics.scroll_height
            height_above_half == h1 > 0 /\ 2 * (h2 - h1) > h1
            nodes_below_5pc == IF n1 > 0 THEN 100 * (n2 - n1) < 5 * n1 ELSE TRUE
        IN  /\ dom_diffs # NoDomDiffs
            /\ dom_diffs.hydration_growth \in Int
            /\ dom_diffs.scroll_growth \in Int
            /\ dom_diffs.scroll_height_growth \in Int
            /\ (t0_metrics.node_count = 0 => dom_diffs.hydration_growth = 0)
            /\ (n1 = 0 => dom_diffs.scroll_growth = 0)
            /\ (h1 = 0 => dom_diffs.scroll_height_growth = 0)
            /\ (dom_diffs.is_virtualized_suspected <=> height_above_half /\ nodes_below_5pc)

C17_Witness ==
    /\ DomDiffed
    /\ t0_metrics.node_count = 0 /\ t1_metrics.node_count > 0
    /\ dom_diffs.hydration_growth = 0
    /\ t1_metrics.scroll_height = 1000 /\ t2_metrics.scroll_height = 2000
    /\ 100 * (t2_metrics.node_count - t1_metrics.node_count) = 5 * t1_metrics.node_count
    /\ ~dom_diffs.is_virtualized_suspected

C17_WitnessAllZero ==
    /\ DomDiffed
    /\ t0_metrics.node_count = 0 /\ t1_metrics.node_count = 0 /\ t1_metrics.scroll_height = 0
    /\ t2_metrics.node_count > 0 /\ t2_metrics.scroll_height > 0
    /\ dom_diffs.scroll_growth = 0 /\ dom_diffs.scroll_height_growth = 0

\* C18: calculate_dom_diffs gives exactly one interpretation, by first match:
\* virtualization suspected -> the height/node mismatch; else scroll_growth >
\* 0.2 -> infinite scroll; else hydration_growth > 0.5 -> heavy client-side
\* rendering; else minimal change.  A run with both virtualization and
\* hydration_growth > 0.5 reports virtualization.
C18_InterpretationPriority ==
    DomDiffed =>
        LET n0 == t0_metrics.node_count
            n1 == t1_metrics.node_count
            n2 == t2_metrics.node_count
            scroll_above_20pc == n1 > 0 /\ 10 * (n2 - n1) > 2 * n1
            hydration_above_half == n0 > 0 /\ 2 * (n1 - n0) > n0
            virt == dom_diffs.is_virtualized_suspected
        IN  dom_diffs.interpretation =
                (IF virt THEN "Virtualized rendering"
                 ELSE IF scroll_above_20pc THEN "Infinite scroll"
                 ELSE IF hydration_above_half THEN "Heavy CSR"
                 ELSE "Minimal DOM changes detected")

C18_Witness ==
    /\ DomDiffed
    /\ dom_diffs.is_virtualized_suspected
    /\ dom_diffs.hydration_growth > 5000
    /\ dom_diffs.interpretation = "Virtualized rendering"

C18_WitnessScrollBeforeHydration ==
    /\ DomDiffed
    /\ dom_diffs.scroll_growth > 2000
    /\ dom_diffs.hydration_growth > 5000
    /\ dom_diffs.interpretation = "Infinite scroll"

Signalled == pc \in {"signals", "scored", "done"}

SignalsWith(label) == {i \in 1..Len(ap_signals) : ap_signals[i].label = label}

\* C19: analyze_ap_signals emits AP-AUTH (confirmed, confidence 1.0) iff the
\* 401 count or the 403 count is > 0, with one evidence item for each of the
\* two counts that is nonzero and none for a zero count; it emits AP-RATE
\* (confirmed, confidence 1.0) iff the 429 count is > 0.
C19_AuthAndRateSignals ==
    Signalled =>
        LET b == network_summary.blocking_signals
            auth == SignalsWith("AP-AUTH")
            rate == SignalsWith("AP-RATE")
            keys(sig) == {sig.evidence[k].key : k \in 1..Len(sig.evidence)}
        IN  /\ Cardinality(auth) = (IF b["401"] > 0 \/ b["403"] > 0 THEN 1 ELSE 0)
            /\ Cardinality(rate) = (IF b["429"] > 0 THEN 1 ELSE 0)
            /\ \A i \in auth :
                  /\ ap_signals[i].state = "confirmed"
                  /\ ap_signals[i].confidence = 100
                  /\ Len(ap_signals[i].evidence)
                       = (IF b["401"] > 0 THEN 1 ELSE 0) + (IF b["403"] > 0 THEN 1 ELSE 0)
                  /\ ("status_401" \in keys(ap_signals[i]) <=> b["401"] > 0)
                  /\ ("status_403" \in keys(ap_signals[i]) <=> b["403"] > 0)
            /\ \A i \in rate :
                  /\ ap_signals[i].state = "confirmed"
                  /\ ap_signals[i].confidence = 100

C19_Witness ==
    /\ Signalled
    /\ network_summary.blocking_signals["401"] = 0
    /\ network_summary.blocking_signals["403"] = 1
    /\ network_summary.blocking_signals["429"] = 1
    /\ Len(ap_signals) >= 2
    /\ ap_signals[1].label = "AP-AUTH"
    /\ ap_signals[1].evidence = <<Evidence("network", "status_403", 1)>>
    /\ ap_signals[2].label = "AP-RATE"

\* C20: AP-BOT-SCORE (suspected, confidence 0.8) is emitted iff the primary
\* status is 200 and the text ratio is < 0.02 and the xhr/fetch count is 0 and
\* the hydration growth of the DomDiffResult is < 0.1; it is never emitted
\* for a page whose hydration growth is >= 0.1, however empty its markup.
C20_BotScoreSignal ==
    Signalled =>
        LET bot == SignalsWith("AP-BOT-SCORE")
            n0 == t0_metrics.node_count
            n1 == t1_metrics.node_count
        IN  /\ Cardinality(bot)
                 = (IF /\ status_code = 200
                       /\ html_stats.text_ratio < 200
                       /\ network_summary.xhr_fetch_count = 0
                       /\ dom_diffs.hydration_growth < 1000
                    THEN 1 ELSE 0)
            /\ \A i \in bot : ap_signals[i].state = "suspected" /\ ap_signals[i].confidence = 80
            /\ (n0 > 0 /\ 10 * (n1 - n0) >= n0 => bot = {})

C20_Witness ==
    /\ Signalled
    /\ status_code = 200
    /\ html_stats.text_ratio = 199
    /\ network_summary.xhr_fetch_count = 0
    /\ t0_metrics.node_count = 100 /\ t1_metrics.node_count = 109
    /\ SignalsWith("AP-BOT-SCORE") # {}

C20_WitnessHydratedShell ==
    /\ Signalled
    /\ status_code = 200
    /\ html_stats.text_ratio = 100
    /\ network_summary.xhr_fetch_count = 0
    /\ t0_metrics.node_count = 100 /\ t1_metrics.node_count = 110
    /\ SignalsWith("AP-BOT-SCORE") = {}

LoginWords == {"login", "signin", "sign-in", "sign_in", "authenticate", "authentication"}

\* C21: AP-LOGIN (confirmed) is emitted iff the URL or the page title
\* contains a login-intent keyword; its confidence is 1.0 whenever the URL
\* matched (also when the title matched too) and 0.8 when only the title
\* matched, and its evidence lists the URL item before the title item.
C21_LoginSignal ==
    Signalled =>
        LET login == SignalsWith("AP-LOGIN")
            url_match == url \cap LoginWords # {}
            title_match == html_stats.title \cap LoginWords # {}
        IN  /\ Cardinality(login) = (IF url_match \/ title_match THEN 1 ELSE 0)
            /\ \A i \in login :
                  /\ ap_signals[i].state = "confirmed"
                  /\ ap_signals[i].confidence = (IF url_match THEN 100 ELSE 80)
                  /\ [k \in 1..Len(ap_signals[i].evidence) |-> ap_signals[i].evidence[k].key]
                       = (IF url_match THEN <<"url">> ELSE <<>>)
                         \o (IF title_match THEN <<"title">> ELSE <<>>)

C21_Witness ==
    /\ Signalled
    /\ "login" \in url /\ "signin" \in html_stats.title
    /\ \E i \in SignalsWith("AP-LOGIN") :
          /\ ap_signals[i].confidence = 100
          /\ Len(ap_signals[i].evidence) = 2
          /\ ap_signals[i].evidence[1].source = "url"
          /\ ap_signals[i].evidence[2].source = "html"

C21_WitnessTitleOnly ==
    /\ Signalled
    /\ url = {} /\ "signin" \in html_stats.title
    /\ \E i \in SignalsWith("AP-LOGIN") : ap_signals[i].confidence = 80

\* the condition of each AP rule, on the evidence of the run
RuleHolds(label) ==
    CASE label = "AP-AUTH" -> network_summary.blocking_signals["401"] > 0
                              \/ network_summary.blocking_signals["403"] > 0
      [] label = "AP-RATE" -> network_summary.blocking_signals["429"] > 0
      [] label = "AP-LOGIN" -> url \cap LoginWords # {} \/ html_stats.title \cap LoginWords # {}
      [] label = "AP-BOT-SCORE" -> /\ status_code = 200
                                   /\ html_stats.text_ratio < 200
                                   /\ network_summary.xhr_fetch_count = 0
                                   /\ dom_diffs.hydration_growth < 1000
      [] label = "AP-CAPTCHA" -> \E k \in 1..Len(captcha_keywords) : captcha_keywords[k] \in raw_html

\* the place of a label in the evaluation order
OrderIndex(label) == CHOOSE k \in 1..Len(ApEvaluationOrder) : ApEvaluationOrder[k] = label

\* C22: the five AP rules are evaluated independently: each label is in the
\* output iff its own rule's condition holds, whatever the other rules
\* decided; the signals appear in the order AP-AUTH, AP-RATE, AP-LOGIN,
\* AP-BOT-SCORE, AP-CAPTCHA, and AP-CAPTCHA (confirmed, 0.95) carries at most
\* the first 3 matched keywords.
C22_RulesIndependent ==
    Signalled =>
        /\ \A k \in 1..Len(ApEvaluationOrder) :
              Cardinality(SignalsWith(ApEvaluationOrder[k]))
                  = (IF RuleHolds(ApEvaluationOrder[k]) THEN 1 ELSE 0)
        /\ \A i \in 1..Len(ap_signals) :
              \E k \in 1..Len(ApEvaluationOrder) : ap_signals[i].label = ApEvaluationOrder[k]
        /\ \A i, j \in 1..Len(ap_signals) :
              i < j => OrderIndex(ap_signals[i].label) < OrderIndex(ap_signals[j].label)
        /\ \A i \in SignalsWith("AP-CAPTCHA") :
              LET found == ap_signals[i].evidence[1].value
                  matched == {k \in 1..Len(captcha_keywords) : captcha_keywords[k] \in raw_html}
              IN  /\ ap_signals[i].state = "confirmed"
                  /\ ap_signals[i].confidence = 95
                  /\ Len(ap_signals[i].evidence) = 1
                  /\ Len(found) = (IF Cardinality(matched) < 3 THEN Cardinality(matched) ELSE 3)
                  /\ \A n \in 1..Len(found) :
                        \E k \in matched :
                            /\ found[n] = captcha_keywords[k]
                            /\ Cardinality({m \in matched : m < k}) = n - 1

C22_Witness ==
    /\ Signalled
    /\ [i \in 1..Len(ap_signals) |-> ap_signals[i].label] = ApEvaluationOrder
    /\ Cardinality({k \in 1..Len(captcha_keywords) : captcha_keywords[k] \in raw_html}) = 4
    /\ ap_signals[5].evidence[1].value = <<"recaptcha", "hcaptcha", "turnstile">>

C22_WitnessRateAndBotScoreOnly ==
    /\ Signalled
    /\ [i \in 1..Len(ap_signals) |-> ap_signals[i].label] = <<"AP-RATE", "AP-BOT-SCORE">>

QuietRun ==
    /\ network_logs = <<>>
    /\ t0_metrics = Snapshot(50, 0) /\ t1_metrics = Snapshot(50, 0) /\ t2_metrics = Snapshot(50, 0)

\* the outcome of the scenario: nothing detected on any axis
ZeroOutcome ==
    /\ (DomDiffed =>
          /\ dom_diffs.hydration_growth = 0
          /\ dom_diffs.scroll_growth = 0
          /\ ~dom_diffs.is_virtualized_suspected)
    /\ (Signalled => ap_signals = <<>>)
    /\ (Scored =>
          /\ labels.structure.primary = "S-STATIC"
          /\ labels.structure.modifiers = <<>>
          /\ labels.loading = "L-STATIC"
          /\ labels.access_protection = <<"AP-OPEN">>
          /\ score.total_score = 0
          /\ score.tier = "EASY"
          /\ score.drivers = <<>>)
    /\ (pc = "done" => strategy.level = "success")

\* C24: for a run with an empty network log and t0 = t1 = t2 (50 nodes each,
\* height 0): hydration_growth = 0, scroll_growth = 0, virtualization false,
\* structure S-STATIC (0), loading L-STATIC (0), no AP signal so access
\* protection is AP-OPEN (0), total score 0, tier EASY, empty driver list and
\* strategy success.
C24_QuietRunScoresZero == QuietRun => ZeroOutcome

\* a page with some text but not much, no SPA root marker, and no login or
\* CAPTCHA wording
PlainPage ==
    /\ ~html_stats.has_root_div
    /\ html_stats.text_ratio <= 500
    /\ (html_stats.text_ratio >= 200 \/ status_code # 200)
    /\ url \cap LoginWords = {}
    /\ html_stats.title \cap LoginWords = {}
    /\ \A k \in 1..Len(captcha_keywords) : captcha_keywords[k] \notin raw_html

\* C24 (amended): the scenario's outcome holds for a quiet run of a plain
\* page: no SPA root marker, text ratio <= 0.05, text ratio >= 0.02 or a
\* status other than 200, no login keyword in URL or title, no CAPTCHA
\* keyword in the markup.
C24_QuietPlainRunScoresZero == QuietRun /\ PlainPage => ZeroOutcome

C24_Witness ==
    /\ pc = "done"
    /\ QuietRun /\ PlainPage
    /\ html_stats.text_ratio = 500
    /\ status_code = 200
    /\ score.total_score = 0
    /\ strategy.level = "success"

\* a quiet run of an empty shell is taken for soft blocking
C24_WitnessEmptyShell ==
    /\ pc = "done"
    /\ QuietRun
    /\ html_stats.text_ratio = 100 /\ status_code = 200 /\ ~html_stats.has_root_div
    /\ labels.access_protection = <<"AP-BOT-SCORE">>
    /\ score.total_score = 30
    /\ score.tier = "MEDIUM"
    /\ strategy.level = "caution"

\* the dictionary d with the absent keys of defaults filled in
WithDefaults(d, defaults) ==
    [k \in DOMAIN defaults |-> IF k \in DOMAIN d THEN d[k] ELSE defaults[k]]

CompleteEntry(e) == WithDefaults(e, LogEntry(e.type, e.status, e.url, {}, FALSE))

CompleteHtmlStats(hs) ==
    WithDefaults(hs, [text_ratio |-> 0, has_root_div |-> FALSE, title |-> {}])

CompleteSummary(ns) ==
    LET top == WithDefaults(ns, [total_captured |-> 0, xhr_fetch_count |-> 0,
                                 blocking_signals |-> <<>>, data_types |-> <<>>])
    IN  [top EXCEPT
            !.blocking_signals = WithDefaults(@, [key \in {"401", "403", "429"} |-> 0]),
            !.data_types = WithDefaults(@, [key \in {"json", "html", "graphql"} |-> 0])]

CompleteDomDiffResult(ddr) ==
    LET top == WithDefaults(ddr, [diffs |-> <<>>, classification |-> <<>>])
    IN  [diffs |-> WithDefaults(top.diffs, [hydration_growth |-> 0, scroll_growth |-> 0]),
         classification |->
             WithDefaults(top.classification, [is_virtualized_suspected |-> FALSE])]

\* the entries of the log that carry neither a content-type nor a GraphQL flag
BareEntries(logs) ==
    {i \in 1..Len(logs) : DOMAIN logs[i] \cap {"content_type", "is_graphql"} = {}}

\* C25: missing optional evidence never makes an analysis fail: a log entry
\* without a content-type or GraphQL flag is counted in total_captured but in
\* no data-type bucket and not as a suspected API, and a network summary,
\* HtmlStats or DomDiffResult lacking a field is scored with the default
\* 0 / false / empty list; the result is an ordinary output.
C25_MissingFieldsDefault ==
    /\ (Summarised /\ network_logs # <<>> =>
          LET full == [i \in 1..Len(network_logs) |-> CompleteEntry(network_logs[i])]
              bare == BareEntries(network_logs)
          IN  /\ network_summary.total_captured = Len(network_logs)
              /\ network_summary.data_types["json"] + network_summary.data_types["html"]
                   + network_summary.data_types["graphql"]
                     <= Len(network_logs) - Cardinality(bare)
              /\ network_summary.suspected_apis
                   = suspected_apis([k \in 1..(Len(network_logs) - Cardinality(bare)) |->
                        network_logs[CHOOSE i \in (1..Len(network_logs)) \ bare :
                            Cardinality({j \in (1..Len(network_logs)) \ bare : j < i}) = k - 1]])
              /\ network_summary = analyze_network_logs(full))
    /\ (Signalled =>
          ap_signals = analyze_ap_signals(url, status_code, CompleteHtmlStats(html_stats),
                                          CompleteSummary(network_summary), raw_html,
                                          CompleteDomDiffResult(dom_diffs)))
    /\ (Scored =>
          /\ labels = slap_labels(CompleteHtmlStats(html_stats),
                                  CompleteSummary(network_summary),
                                  CompleteDomDiffResult(dom_diffs), ap_signals)
          /\ score = slap_score(CompleteHtmlStats(html_stats),
                                CompleteSummary(network_summary),
                                CompleteDomDiffResult(dom_diffs), ap_signals)
          /\ labels.structure.primary \in {"S-CSR", "S-SSR", "S-STATIC"}
          /\ labels.loading \in {"L-GRAPHQL", "L-INTERACTIVE", "L-API", "L-STATIC"}
          /\ score.total_score \in 0..100
          /\ score.tier \in {"EASY", "MEDIUM", "HARD", "HELL"})

C25_Witness ==
    /\ Scored
    /\ DOMAIN html_stats = {} /\ DOMAIN dom_diffs = {}
    /\ Len(network_logs) = 2
    /\ BareEntries(network_logs) = {1}
    /\ network_logs[1].type = "xhr"
    /\ network_logs[2].type = "fetch" /\ "content_type" \notin DOMAIN network_logs[2]
    /\ network_summary.total_captured = 2
    /\ network_summary.data_types["graphql"] = 1
    /\ network_summary.suspected_apis = <<2>>
    /\ labels.structure.primary = "S-STATIC"
    /\ labels.loading = "L-GRAPHQL"
    /\ score.total_score = 16

C25_WitnessEmptyDictionaries ==
    /\ Scored
    /\ DOMAIN html_stats = {} /\ DOMAIN network_summary = {} /\ DOMAIN dom_diffs = {}
    /\ labels.access_protection = <<"AP-BOT-SCORE">>
    /\ labels.structure.primary = "S-STATIC"
    /\ labels.loading = "L-STATIC"
    /\ score.total_score = 30

\* C26: whenever the tier is HELL, the recommended strategy level is abort or
\* warn: a total >= 81 needs an AP-CAPTCHA/AP-AUTH signal or the
\* S-VIRTUALIZED modifier, so HELL never coincides with caution, info or
\* success.
C26_HellIsAbortOrWarn ==
    /\ (Scored /\ score.tier = "HELL" =>
          \/ HasLabel(labels.access_protection, "AP-CAPTCHA")
          \/ HasLabel(labels.access_protection, "AP-AUTH")
          \/ HasLabel(labels.structure.modifiers, "S-VIRTUALIZED"))
    /\ (pc = "done" /\ score.tier = "HELL" => strategy.level \in {"abort", "warn"})

C26_Witness ==
    /\ pc = "done"
    /\ score.tier = "HELL"
    /\ ~HasLabel(labels.access_protection, "AP-CAPTCHA")
    /\ ~HasLabel(labels.access_protection, "AP-AUTH")
    /\ strategy.level = "warn"

\* the highest total without CAPTCHA, AUTH and virtualization stays below HELL
C26_WitnessHighestCaution ==
    /\ pc = "done"
    /\ AccessAxis(labels) = 80 /\ StructureAxis(labels) = 60 /\ LoadingAxis(labels) = 80
    /\ score.total_score = 74
    /\ score.tier = "HARD"
    /\ strategy.level = "caution"

\* C27: when the labels are computed from the DomDiffResult of one run, the
\* modifier S-VIRTUALIZED and the loading label L-INTERACTIVE never occur
\* together: virtualization needs scroll_growth < 0.05, L-INTERACTIVE needs
\* scroll_growth > 0.1, and rounding to 4 decimals does not bridge the gap.
C27_VirtualizedNotInteractive ==
    /\ (DomDiffed /\ dom_diffs.is_virtualized_suspected => dom_diffs.scroll_growth <= 500)
    /\ (Scored =>
          ~(/\ HasLabel(labels.structure.modifiers, "S-VIRTUALIZED")
            /\ labels.loading = "L-INTERACTIVE"))

C27_Witness ==
    /\ Scored
    /\ HasLabel(labels.structure.modifiers, "S-VIRTUALIZED")
    /\ dom_diffs.scroll_growth > 0
    /\ labels.loading = "L-STATIC"

C27_WitnessInteractive ==
    /\ Scored
    /\ labels.loading = "L-INTERACTIVE"
    /\ labels.structure.modifiers = <<>>
    /\ 2 * (t2_metrics.scroll_height - t1_metrics.scroll_height) > t1_metrics.scroll_height
    /\ t1_metrics.scroll_height > 0

\* C28: in every score of calculate_slap_score the breakdown values AP, S and
\* L (each truncated separately) sum exactly to total_score, with AP <= 50,
\* S <= 30 and L <= 20; every weighted axis contribution is a whole number.
C28_BreakdownSumsToTotal ==
    Scored =>
        /\ score.breakdown.AP + score.breakdown.S + score.breakdown.L = score.total_score
        /\ score.breakdown.AP \in 0..50
        /\ score.breakdown.S \in 0..30
        /\ score.breakdown.L \in 0..20
        /\ 10 * score.breakdown.AP = 5 * AccessAxis(labels)
        /\ 10 * score.breakdown.S = 3 * StructureAxis(labels)
        /\ 10 * score.breakdown.L = 2 * LoadingAxis(labels)

C28_Witness ==
    /\ Scored
    /\ score.breakdown.AP = 20 /\ score.breakdown.S = 27 /\ score.breakdown.L = 6
    /\ score.total_score = 53

\* the responses of a kept type whose log entry was built, in order of arrival
CountedArrivals == {i \in 1..Len(arrived) : arrived[i].type \in KeptTypes /\ arrived[i].built}

\* C29: in inspect_site the response listener is registered before
\* navigation starts and the network summary used for AP detection and
\* scoring is computed only after the t2 snapshot, so every response of a
\* kept resource type that arrives from navigation through the scroll phase,
\* and whose log entry is built without an exception, is counted in that
\* summary.
C29_ResponsesCounted ==
    /\ (pc \in CapturePhases \/ arrived # <<>> => listening)
    /\ (pc \in {"launched", "page", "ready", "captured", "diffed"} \cup CapturePhases =>
          network_summary = NoSummary)
    /\ (pc \in {"summarised", "signals", "scored", "done"} =>
          /\ network_summary.total_captured = Cardinality(CountedArrivals)
          /\ network_summary.blocking_signals["429"]
               = Cardinality({i \in CountedArrivals : arrived[i].status = 429})
          /\ network_summary.xhr_fetch_count
               = Cardinality({i \in CountedArrivals : arrived[i].type = "xhr"}))
    /\ (pc \in {"signals", "scored", "done"} =>
          (SignalsWith("AP-RATE") # {} <=> \E i \in CountedArrivals : arrived[i].status = 429))

C29_Witness ==
    /\ pc = "done"
    /\ Len(arrived) = 2
    /\ arrived[1].phase = "navigating" /\ arrived[1].type = "document" /\ arrived[1].built
    /\ arrived[2].phase = "scrolling" /\ arrived[2].type = "xhr" /\ arrived[2].built
    /\ arrived[2].status = 429
    /\ network_summary.total_captured = 2
    /\ SignalsWith("AP-RATE") # {}

C29_WitnessDropped ==
    /\ pc = "done"
    /\ Len(arrived) = 2
    /\ arrived[1].type = "image"
    /\ arrived[2].type = "xhr" /\ ~arrived[2].built /\ arrived[2].status = 429
    /\ network_summary.total_captured = 0
    /\ SignalsWith("AP-RATE") = {}

Exited == pc \in {"exited", "exit_0", "exit_1"}

C30_ClosedOnceAfterTry ==
    Exited /\ listening =>
        /\ browser_closes = 1
        /\ outcome \in {"returned", "raised"}
        /\ (outcome = "returned" => strategy # NoStrategy)

C30_WitnessSetupFailure ==
    /\ Exited
    /\ ~listening
    /\ outcome = "raised"
    /\ browser_closes = 0

====
